---- MODULE Spec2Model ----
(***************************************************************************)
(* Verification model of the eskiz DesignSpec generation pipeline.         *)
(*                                                                         *)
(*   SpecRetry  the retry/timeout client makeOpenAIRequestWithRetry        *)
(*              (apps/api/src/utils/specAnalysis.ts)                       *)
(*   SpecGen    generateDesignSpec, its repair passes and the warnings of  *)
(*              validateVisualUsage (apps/api/src/spec/generator.ts,       *)
(*              apps/api/src/spec/validation/validateVisualUsage.ts)       *)
(*   SpecPrompt    assembleSystemPrompt with its loadRules call            *)
(*                 (apps/api/src/spec/prompt)                              *)
(*   SpecRulesDir  several requests calling loadRules while the cache of   *)
(*                 getSpecRulesDir is reset                                *)
(*   SpecHash      computeObjectHash (apps/api/src/utils)                  *)
(*                                                                         *)
(* Strings that the code inspects (includes, toLowerCase, trim) are        *)
(* sequences of one-character strings, so that those operations are        *)
(* computed and not assumed.  An optional value is a sequence of length    *)
(* 0 (undefined / null) or 1.                                              *)
(***************************************************************************)
EXTENDS Integers, Sequences, FiniteSets, TLC

VARIABLES
    \* ---- makeOpenAIRequestWithRetry ----
    maxRetries,     \* env.OPENAI_RETRY_MAX
    baseRetryMs,    \* env.OPENAI_RETRY_BASE_MS
    rpc,            \* position: "idle" | "attempt" | "sleeping" | "done"
    attempt,        \* loop variable of the for loop
    retryCount,     \* let retryCount
    lastError,      \* let lastError (optional)
    calls,          \* log of the backend: outcome of every call made
    sleeps,         \* log of the timer: every delay passed to sleep()
    result,         \* the RetryResult returned (optional)
    \* ---- generateDesignSpec ----
    gpc,            \* position: "off" | "start" | "awaiting" | "done"
    dryRun,         \* the dryRun argument
    requestContext, \* request.generationContext: optional target layout
    backendCalls,   \* number of calls of openai.chat.completions.create
    response,       \* what the backend call settled with (optional)
    passes,         \* the repair passes that ran, in order
    warnings,       \* const visualWarnings, as logged
    generated,      \* how generateDesignSpec ended (optional)
    \* ---- loadRules / assembleSystemPrompt ----
    specRulesDirEnv,    \* process.env.SPEC_RULES_DIR (optional)
    dirname,            \* __dirname of loadRules.js
    files,              \* the file system: path |-> text of the file
    cachedSpecRulesDir, \* let cachedSpecRulesDir (null or a directory)
    ppc,                \* position: "off" | "idle" | "received" | "done"
    options,            \* the PromptAssemblyOptions of the request (optional)
    loaded,             \* how loadRules ended in the call (optional)
    prompt,             \* how assembleSystemPrompt ended (optional)
    reads,              \* per request: the directories its loadRuleFile calls resolved
    \* ---- computeObjectHash ----
    hpc,            \* "off", or "idle" while objects are hashed
    obj,            \* the object: its properties in insertion order
    reinserted,     \* the same properties inserted in another order
    hashes          \* the hashes returned: of obj, of obj again, of reinserted

varsRetry == <<maxRetries, baseRetryMs, rpc, attempt, retryCount, lastError,
               calls, sleeps, result>>

varsGen == <<gpc, dryRun, requestContext, backendCalls, response, passes, warnings,
             generated>>

varsRules == <<specRulesDirEnv, dirname, files, cachedSpecRulesDir, ppc, options,
               loaded, prompt, reads>>

varsHash == <<hpc, obj, reinserted, hashes>>

vars == <<maxRetries, baseRetryMs, rpc, attempt, retryCount, lastError,
          calls, sleeps, result,
          gpc, dryRun, requestContext, backendCalls, response, passes, warnings,
          generated,
          specRulesDirEnv, dirname, files, cachedSpecRulesDir, ppc, options,
          loaded, prompt, reads,
          hpc, obj, reinserted, hashes>>

(***************************************************************************)
(* Bounds                                                                  *)
(***************************************************************************)
MaxRetryMax == 3

\* nodes of a backend response in the family of plain trees
MaxNodes == 7

\* nodes of a backend response in the family of styled and malformed trees
MaxStyledNodes == 3

\* nodes of a document of VisualSpecs
MaxVisualNodes == 3

\* requests that call loadRules in SpecRulesDir
MaxRequests == 3

\* properties of an object given to computeObjectHash
MaxKeys == 3

(***************************************************************************)
(* Optional values                                                         *)
(***************************************************************************)
None == <<>>

Some(v) == <<v>>

IsSome(o) == Len(o) = 1

Opt(S) == {None} \cup {Some(v) : v \in S}

(***************************************************************************)
(* The machines that a specification does not run stay in these states     *)
(***************************************************************************)
RulesOff ==
    /\ specRulesDirEnv = None
    /\ dirname = <<>>
    /\ files = <<>>
    /\ cachedSpecRulesDir = None
    /\ ppc = "off"
    /\ options = None
    /\ loaded = None
    /\ prompt = None
    /\ reads = <<>>

HashOff ==
    /\ hpc = "off"
    /\ obj = <<>>
    /\ reinserted = <<>>
    /\ hashes = <<>>

RetryOff ==
    /\ maxRetries = 0
    /\ baseRetryMs = 0
    /\ rpc = "off"
    /\ attempt = 0
    /\ retryCount = 0
    /\ lastError = None
    /\ calls = <<>>
    /\ sleeps = <<>>
    /\ result = None

GenOff ==
    /\ gpc = "off"
    /\ dryRun = FALSE
    /\ requestContext = None
    /\ backendCalls = 0
    /\ response = None
    /\ passes = <<>>
    /\ warnings = <<>>
    /\ generated = None

(***************************************************************************)
(* Strings as character sequences                                          *)
(***************************************************************************)
toLowerCaseChar(c) ==
    CASE c = "A" -> "a" [] c = "B" -> "b" [] c = "C" -> "c" [] c = "D" -> "d"
      [] c = "E" -> "e" [] c = "F" -> "f" [] c = "G" -> "g" [] c = "H" -> "h"
      [] c = "I" -> "i" [] c = "J" -> "j" [] c = "K" -> "k" [] c = "L" -> "l"
      [] c = "M" -> "m" [] c = "N" -> "n" [] c = "O" -> "o" [] c = "P" -> "p"
      [] c = "Q" -> "q" [] c = "R" -> "r" [] c = "S" -> "s" [] c = "T" -> "t"
      [] c = "U" -> "u" [] c = "V" -> "v" [] c = "W" -> "w" [] c = "X" -> "x"
      [] c = "Y" -> "y" [] c = "Z" -> "z" [] OTHER -> c

toLowerCase(s) == [i \in 1..Len(s) |-> toLowerCaseChar(s[i])]

includes(s, sub) ==
    \E i \in 0..(Len(s) - Len(sub)) : SubSeq(s, i + 1, i + Len(sub)) = sub

(***************************************************************************)
(* Thrown values.  isObject: typeof error === "object" and not null;       *)
(* isError: error instanceof Error; hasStatus: "status" in error and       *)
(* typeof error.status === "number".                                       *)
(***************************************************************************)
StrRequestTimeout == <<"R", "e", "q", "u", "e", "s", "t", " ", "t", "i", "m", "e", "o", "u", "t">>

StrUpstreamTimeout == <<"u", "p", "s", "t", "r", "e", "a", "m", " ", "t", "i", "m", "e", "o", "u", "t">>

StrSocketTimeout == <<"S", "o", "c", "k", "e", "t", " ", "T", "i", "m", "e", "o", "u", "t">>

StrReadEconnreset == <<"r", "e", "a", "d", " ", "E", "C", "O", "N", "N", "R", "E", "S", "E", "T">>

StrConnectEtimedout == <<"c", "o", "n", "n", "e", "c", "t", " ", "E", "T", "I", "M", "E", "D", "O", "U", "T">>

StrUnavailable == <<"U", "n", "a", "v", "a", "i", "l", "a", "b", "l", "e">>

StrBadRequest == <<"B", "a", "d", " ", "r", "e", "q", "u", "e", "s", "t">>

RetryableStatuses == {429, 500, 502, 503, 504}

Statuses == RetryableStatuses \cup {400, 408}

\* new Error(message) with no numeric status
PlainError(msg) ==
    [isObject |-> TRUE, isError |-> TRUE, hasStatus |-> FALSE, status |-> 0, message |-> msg]

\* an API error of the backend SDK: an Error carrying a numeric status
StatusError(st, msg) ==
    [isObject |-> TRUE, isError |-> TRUE, hasStatus |-> TRUE, status |-> st, message |-> msg]

\* a rejected plain object { status } that is not an Error
StatusObject(st) ==
    [isObject |-> TRUE, isError |-> FALSE, hasStatus |-> TRUE, status |-> st, message |-> <<>>]

\* a rejected primitive (a string)
ThrownString(msg) ==
    [isObject |-> FALSE, isError |-> FALSE, hasStatus |-> FALSE, status |-> 0, message |-> msg]

\* the rejection of timeoutPromise
TimeoutRejection == PlainError(StrRequestTimeout)

NetworkErrors ==
    {PlainError(m) : m \in {StrReadEconnreset, StrConnectEtimedout, StrSocketTimeout,
                            StrUpstreamTimeout, StrBadRequest}}

StatusErrors ==
    {StatusError(st, m) : st \in Statuses, m \in {StrUnavailable, StrUpstreamTimeout}}

BackendErrors ==
    NetworkErrors \cup StatusErrors \cup {StatusObject(503), StatusObject(400),
                                          ThrownString(StrUpstreamTimeout)}

(***************************************************************************)
(* Completions returned by the backend.  callNo is the number of the       *)
(* backend call that produced the completion; headerId is the              *)
(* openai-request-id header of _response (absent, empty or set); id is     *)
(* the completion's own id field.                                          *)
(***************************************************************************)
Completions(n) ==
    [callNo : {n}, headerId : Opt({"", "req_hdr"}), id : Opt({"chatcmpl"})]

NoCompletion == [callNo |-> 0, headerId |-> None, id |-> None]

NoError == ThrownString(<<>>)

\* entries of the backend log
CallSuccess(c) == [kind |-> "success", error |-> NoError, completion |-> c]

CallFailure(e) == [kind |-> "failure", error |-> e, completion |-> NoCompletion]

CallTimeout == [kind |-> "timeout", error |-> TimeoutRejection, completion |-> NoCompletion]

(***************************************************************************)
(* isRetryableError                                                        *)
(***************************************************************************)
isRetryableError(error) ==
    IF ~error.isObject THEN FALSE
    ELSE IF error.hasStatus THEN error.status \in {429, 500, 502, 503, 504}
    ELSE IF error.isError THEN
        LET message == toLowerCase(error.message)
        IN  \/ includes(message, <<"t", "i", "m", "e", "o", "u", "t">>)
            \/ includes(message, <<"e", "c", "o", "n", "n", "r", "e", "s", "e", "t">>)
            \/ includes(message, <<"e", "t", "i", "m", "e", "d", "o", "u", "t">>)
    ELSE FALSE

(***************************************************************************)
(* The pieces of the catch block and of the final return                   *)
(***************************************************************************)
\* mutant: the timeout check of the catch block is missing
isTimeout_missing(error) == FALSE

\* const isTimeout = error instanceof Error && (message.includes("timeout") || ...)
isTimeout(error) ==
    /\ error.isError
    /\ \/ includes(error.message, <<"t", "i", "m", "e", "o", "u", "t">>)
       \/ error.message = StrRequestTimeout

\* mutant: the last attempt is not recognised
breaksLoop_noLastAttempt(error, att, max) == ~isRetryableError(error)

\* if (!isRetryableError(error) || attempt === maxRetries) break
breaksLoop(error, att, max) == ~isRetryableError(error) \/ att = max

RECURSIVE pow2(_)
pow2(n) == IF n = 0 THEN 1 ELSE 2 * pow2(n - 1)

\* mutant: linear instead of exponential backoff
delayMs_linear(base, att) == base * (att + 1)

\* const delayMs = baseRetryMs * 2 ** attempt
delayMs(base, att) == base * pow2(att)

\* mutant: the retry is not counted
incrementRetryCount_forgotten(count) == count

\* retryCount++
incrementRetryCount(count) == count + 1

\* mutant: the final classification folds connection resets into timeout
finalOutcome_foldsNetworkErrors(err) ==
    IF IsSome(err) /\ err[1].isError
       /\ LET message == toLowerCase(err[1].message)
          IN  \/ includes(message, <<"t", "i", "m", "e", "o", "u", "t">>)
              \/ includes(message, <<"e", "c", "o", "n", "n", "r", "e", "s", "e", "t">>)
    THEN "timeout" ELSE "error"

\* outcome of the return statement after the loop
finalOutcome(err) ==
    IF IsSome(err) /\ err[1].isError
       /\ includes(err[1].message, <<"t", "i", "m", "e", "o", "u", "t">>)
    THEN "timeout" ELSE "error"

\* extraction of the request id from a completion
extractRequestId(completion) ==
    LET fromHeaders == IF IsSome(completion.headerId) THEN completion.headerId ELSE None
    IN  IF (fromHeaders = None \/ fromHeaders[1] = "") /\ IsSome(completion.id)
        THEN completion.id
        ELSE fromHeaders

RetryResult(completion, count, outcome, reqId) ==
    [completion |-> completion, retryCount |-> count, outcome |-> outcome,
     openaiRequestId |-> reqId]

(***************************************************************************)
(* makeOpenAIRequestWithRetry as a state machine                           *)
(***************************************************************************)
InitRetry ==
    /\ maxRetries \in 0..MaxRetryMax
    /\ baseRetryMs \in {250, 1000}
    /\ rpc = "idle"
    /\ attempt = 0
    /\ retryCount = 0
    /\ lastError = None
    /\ calls = <<>>
    /\ sleeps = <<>>
    /\ result = None
    /\ gpc = "off"
    /\ dryRun = FALSE
    /\ requestContext = None
    /\ backendCalls = 0
    /\ response = None
    /\ passes = <<>>
    /\ warnings = <<>>
    /\ generated = None
    /\ RulesOff
    /\ HashOff

\* entry of the function: let lastError; let retryCount = 0; attempt = 0
StartRequest ==
    /\ rpc = "idle"
    /\ rpc' = "attempt"
    /\ attempt' = 0
    /\ retryCount' = 0
    /\ lastError' = None
    /\ UNCHANGED <<maxRetries, baseRetryMs, calls, sleeps, result>>
    /\ UNCHANGED <<varsGen, varsRules, varsHash>>

\* the race is won by the backend's completion: the try block returns
AttemptSucceeds ==
    /\ rpc = "attempt"
    /\ attempt <= maxRetries
    /\ \E c \in Completions(Len(calls) + 1) :
        /\ calls' = Append(calls, CallSuccess(c))
        /\ result' = Some(RetryResult(Some(c), retryCount, "success", extractRequestId(c)))
    /\ rpc' = "done"
    /\ UNCHANGED <<maxRetries, baseRetryMs, attempt, retryCount, lastError, sleeps>>
    /\ UNCHANGED <<varsGen, varsRules, varsHash>>

\* the catch block, for the value the race rejected with
Catch(error) ==
    /\ lastError' = Some(error)
    /\ IF isTimeout(error)
       THEN /\ result' = Some(RetryResult(None, retryCount, "timeout", None))
            /\ rpc' = "done"
            /\ UNCHANGED <<retryCount, sleeps>>
       ELSE IF breaksLoop(error, attempt, maxRetries)
       THEN /\ result' = Some(RetryResult(None, retryCount, finalOutcome(Some(error)), None))
            /\ rpc' = "done"
            /\ UNCHANGED <<retryCount, sleeps>>
       ELSE /\ retryCount' = incrementRetryCount(retryCount)
            /\ sleeps' = Append(sleeps, delayMs(baseRetryMs, attempt))
            /\ rpc' = "sleeping"
            /\ UNCHANGED result
    /\ UNCHANGED <<maxRetries, baseRetryMs, attempt>>
    /\ UNCHANGED <<varsGen, varsRules, varsHash>>

\* the race is lost to the backend's rejection
AttemptFails ==
    /\ rpc = "attempt"
    /\ attempt <= maxRetries
    /\ \E e \in BackendErrors :
        /\ calls' = Append(calls, CallFailure(e))
        /\ Catch(e)

\* the race is won by timeoutPromise after OPENAI_TIMEOUT_MS
AttemptTimesOut ==
    /\ rpc = "attempt"
    /\ attempt <= maxRetries
    /\ calls' = Append(calls, CallTimeout)
    /\ Catch(TimeoutRejection)

\* sleep(delayMs) resolves: attempt++, then the loop condition
\* attempt <= maxRetries; when it fails the statement after the loop returns
SleepElapses ==
    /\ rpc = "sleeping"
    /\ attempt' = attempt + 1
    /\ IF attempt + 1 <= maxRetries
       THEN /\ rpc' = "attempt"
            /\ UNCHANGED result
       ELSE /\ rpc' = "done"
            /\ result' = Some(RetryResult(None, retryCount, finalOutcome(lastError), None))
    /\ UNCHANGED <<maxRetries, baseRetryMs, retryCount, lastError, calls, sleeps>>
    /\ UNCHANGED <<varsGen, varsRules, varsHash>>

NextRetry ==
    \/ StartRequest
    \/ AttemptSucceeds
    \/ AttemptFails
    \/ AttemptTimesOut
    \/ SleepElapses

SpecRetry == InitRetry /\ [][NextRetry]_vars

(***************************************************************************)
(* The DesignSpec data model (packages/spec/src/types.ts)                  *)
(***************************************************************************)
TextNode(content, fontSize, color) ==
    [type |-> "text", content |-> content, fontSize |-> fontSize, color |-> color]

ButtonNode(label, background, textColor, borderRadius) ==
    [type |-> "button", label |-> label, background |-> background,
     textColor |-> textColor, borderRadius |-> borderRadius]

ContainerNode(layout, gap, padding, children, background, borderRadius, border) ==
    [type |-> "container", layout |-> layout, gap |-> gap, padding |-> padding,
     children |-> children, background |-> background,
     borderRadius |-> borderRadius, border |-> border]

Border(color, width) == [color |-> color, width |-> width]

Frame(name, width, height, layout, gap, padding, background, borderRadius, border) ==
    [name |-> name, width |-> width, height |-> height, layout |-> layout,
     gap |-> gap, padding |-> padding, background |-> background,
     borderRadius |-> borderRadius, border |-> border]

DesignSpec(page, frame, nodes) ==
    [kind |-> "object", page |-> page, frame |-> frame, nodes |-> nodes]

(***************************************************************************)
(* designSpecSchema (packages/spec/src/schema.ts)                          *)
(***************************************************************************)
layoutSchema(v) == v \in {"vertical", "horizontal"}

borderSchema(b) == b.width >= 0

optionalNonnegative(o) == IsSome(o) => o[1] >= 0

optionalPositive(o) == IsSome(o) => o[1] > 0

optionalBorder(o) == IsSome(o) => borderSchema(o[1])

frameSchema(f) ==
    /\ f.name # ""
    /\ f.width > 0
    /\ optionalPositive(f.height)
    /\ layoutSchema(f.layout)
    /\ f.gap >= 0
    /\ f.padding >= 0
    /\ optionalNonnegative(f.borderRadius)
    /\ optionalBorder(f.border)

textNodeSchema(n) == optionalPositive(n.fontSize)

buttonNodeSchema(n) == n.label # "" /\ optionalNonnegative(n.borderRadius)

\* mutant: the children of a container are counted but not validated
nodeSchema_shallow(n) ==
    CASE n.type = "text" -> textNodeSchema(n)
      [] n.type = "button" -> buttonNodeSchema(n)
      [] n.type = "container" ->
            /\ layoutSchema(n.layout)
            /\ n.gap >= 0
            /\ n.padding >= 0
            /\ Len(n.children) >= 1
            /\ optionalNonnegative(n.borderRadius)
            /\ optionalBorder(n.border)
      [] OTHER -> FALSE

RECURSIVE nodeSchema(_)
nodeSchema(n) ==
    CASE n.type = "text" -> textNodeSchema(n)
      [] n.type = "button" -> buttonNodeSchema(n)
      [] n.type = "container" ->
            /\ layoutSchema(n.layout)
            /\ n.gap >= 0
            /\ n.padding >= 0
            /\ Len(n.children) >= 1
            /\ \A i \in 1..Len(n.children) : nodeSchema(n.children[i])
            /\ optionalNonnegative(n.borderRadius)
            /\ optionalBorder(n.border)
      [] OTHER -> FALSE

designSpecSchema(v) ==
    /\ v.kind = "object"
    /\ v.page # ""
    /\ frameSchema(v.frame)
    /\ Len(v.nodes) >= 1
    /\ \A i \in 1..Len(v.nodes) : nodeSchema(v.nodes[i])

(***************************************************************************)
(* ensureNonEmptyTextContent                                               *)
(***************************************************************************)
\* mutant: the last placeholder is itself white space
placeholderTexts_blankLast ==
    << <<"E", "n", "t", "e", "r", " ", "y", "o", "u", "r", " ", "e", "m", "a", "i", "l">>,
       <<"E", "n", "t", "e", "r", " ", "p", "a", "s", "s", "w", "o", "r", "d">>,
       <<"E", "n", "t", "e", "r", " ", "v", "a", "l", "u", "e">>,
       <<"E", "n", "t", "e", "r", " ", "t", "e", "x", "t">>,
       <<" ">> >>

\* mutant: the second placeholder names neither "enter" nor "placeholder"
placeholderTexts_passwordLabel ==
    << <<"E", "n", "t", "e", "r", " ", "y", "o", "u", "r", " ", "e", "m", "a", "i", "l">>,
       <<"P", "a", "s", "s", "w", "o", "r", "d">>,
       <<"E", "n", "t", "e", "r", " ", "v", "a", "l", "u", "e">>,
       <<"E", "n", "t", "e", "r", " ", "t", "e", "x", "t">>,
       <<"P", "l", "a", "c", "e", "h", "o", "l", "d", "e", "r">> >>

placeholderTexts ==
    << <<"E", "n", "t", "e", "r", " ", "y", "o", "u", "r", " ", "e", "m", "a", "i", "l">>,
       <<"E", "n", "t", "e", "r", " ", "p", "a", "s", "s", "w", "o", "r", "d">>,
       <<"E", "n", "t", "e", "r", " ", "v", "a", "l", "u", "e">>,
       <<"E", "n", "t", "e", "r", " ", "t", "e", "x", "t">>,
       <<"P", "l", "a", "c", "e", "h", "o", "l", "d", "e", "r">> >>

\* the characters String.prototype.trim removes, among those of the model
WhiteSpace == {" ", "\t", "\n"}

RECURSIVE trimStart(_)
trimStart(s) ==
    IF s # <<>> /\ Head(s) \in WhiteSpace THEN trimStart(Tail(s)) ELSE s

RECURSIVE trimEnd(_)
trimEnd(s) ==
    IF s # <<>> /\ s[Len(s)] \in WhiteSpace THEN trimEnd(SubSeq(s, 1, Len(s) - 1)) ELSE s

trim(s) == trimEnd(trimStart(s))

\* mutant: only the empty string is replaced
needsPlaceholder_noTrim(content) == content = <<>>

\* !node.content || node.content.trim() === ""
needsPlaceholder(content) == content = <<>> \/ trim(content) = <<>>

\* mutant: the counter is advanced before it is used
pickPlaceholder_incrementFirst(placeholderIndex) ==
    placeholderTexts[((placeholderIndex + 1) % Len(placeholderTexts)) + 1]

\* placeholderTexts[placeholderIndex % placeholderTexts.length]
pickPlaceholder(placeholderIndex) ==
    placeholderTexts[(placeholderIndex % Len(placeholderTexts)) + 1]

\* fixNode, with the closure variable placeholderIndex passed in and out;
\* fixNodes is nodes.map(fixNode), which visits the elements left to right
RECURSIVE fixNode(_, _), fixNodes(_, _)
fixNode(node, placeholderIndex) ==
    IF node.type = "text"
    THEN IF needsPlaceholder(node.content)
         THEN [node |-> [node EXCEPT !.content = pickPlaceholder(placeholderIndex)],
               placeholderIndex |-> placeholderIndex + 1]
         ELSE [node |-> node, placeholderIndex |-> placeholderIndex]
    ELSE IF node.type = "container"
    THEN LET fixed == fixNodes(node.children, placeholderIndex)
         IN  [node |-> [node EXCEPT !.children = fixed.nodes],
              placeholderIndex |-> fixed.placeholderIndex]
    ELSE [node |-> node, placeholderIndex |-> placeholderIndex]

fixNodes(nodes, placeholderIndex) ==
    IF nodes = <<>>
    THEN [nodes |-> <<>>, placeholderIndex |-> placeholderIndex]
    ELSE LET first == fixNode(Head(nodes), placeholderIndex)
             rest == fixNodes(Tail(nodes), first.placeholderIndex)
         IN  [nodes |-> <<first.node>> \o rest.nodes,
              placeholderIndex |-> rest.placeholderIndex]

ensureNonEmptyTextContent(spec) ==
    [spec EXCEPT !.nodes = fixNodes(spec.nodes, 0).nodes]

(***************************************************************************)
(* applyVisualDefaults                                                     *)
(***************************************************************************)
\* mutant: a default borderRadius that the schema rejects
VISUAL_DEFAULTS_negativeRadius ==
    [containerBackground |-> "#FFFFFF",
     containerBorderRadius |-> 0 - 12,
     inputBorder |-> Border("#D1D5DB", 1),
     buttonBackground |-> "#2563EB",
     buttonTextColor |-> "#FFFFFF",
     buttonBorderRadius |-> 8,
     primaryTextColor |-> "#111111",
     placeholderTextColor |-> "#6B7280"]

VISUAL_DEFAULTS ==
    [containerBackground |-> "#FFFFFF",
     containerBorderRadius |-> 12,
     inputBorder |-> Border("#D1D5DB", 1),
     buttonBackground |-> "#2563EB",
     buttonTextColor |-> "#FFFFFF",
     buttonBorderRadius |-> 8,
     primaryTextColor |-> "#111111",
     placeholderTextColor |-> "#6B7280"]

defaultDimensions(targetLayout) ==
    CASE targetLayout = "mobile" -> [width |-> 400, height |-> 800]
      [] targetLayout = "tablet" -> [width |-> 768, height |-> 900]
      [] targetLayout = "desktop" -> [width |-> 1200, height |-> 900]

\* mutant: the default always wins
orElse_defaultWins(o, d) == d

\* a ?? b
orElse(o, d) == IF IsSome(o) THEN o ELSE d

isPlaceholderText(node) ==
    IF node.type # "text" THEN FALSE
    ELSE LET content == toLowerCase(node.content)
         IN  \/ includes(content, <<"e", "n", "t", "e", "r">>)
             \/ includes(content, <<"p", "l", "a", "c", "e", "h", "o", "l", "d", "e", "r">>)
             \/ includes(content, <<"h", "i", "n", "t">>)
             \/ includes(content, <<"h", "e", "l", "p", "e", "r">>)

\* mutant: a container that has a border is not input-like
isInputContainer_borderExcludes(node) ==
    IF node.type # "container" THEN FALSE
    ELSE IF IsSome(node.border) THEN FALSE
    ELSE \E i \in 1..Len(node.children) :
            /\ node.children[i].type = "text"
            /\ \/ includes(toLowerCase(node.children[i].content), <<"e", "n", "t", "e", "r">>)
               \/ includes(toLowerCase(node.children[i].content),
                           <<"p", "l", "a", "c", "e", "h", "o", "l", "d", "e", "r">>)

\* mutant: the words are looked for without lowering the case
isInputContainer_caseSensitive(node) ==
    IF node.type # "container" THEN FALSE
    ELSE IF IsSome(node.border) THEN TRUE
    ELSE \E i \in 1..Len(node.children) :
            /\ node.children[i].type = "text"
            /\ \/ includes(node.children[i].content, <<"e", "n", "t", "e", "r">>)
               \/ includes(node.children[i].content,
                           <<"p", "l", "a", "c", "e", "h", "o", "l", "d", "e", "r">>)

isInputContainer(node) ==
    IF node.type # "container" THEN FALSE
    ELSE IF IsSome(node.border) THEN TRUE
    ELSE \E i \in 1..Len(node.children) :
            /\ node.children[i].type = "text"
            /\ \/ includes(toLowerCase(node.children[i].content), <<"e", "n", "t", "e", "r">>)
               \/ includes(toLowerCase(node.children[i].content),
                           <<"p", "l", "a", "c", "e", "h", "o", "l", "d", "e", "r">>)

RECURSIVE applyNodeDefaults(_)
applyNodeDefaults(node) ==
    IF node.type = "text"
    THEN [node EXCEPT !.color =
            orElse(node.color,
                   IF isPlaceholderText(node)
                   THEN Some(VISUAL_DEFAULTS.placeholderTextColor)
                   ELSE Some(VISUAL_DEFAULTS.primaryTextColor))]
    ELSE IF node.type = "button"
    THEN [node EXCEPT
            !.background = orElse(node.background, Some(VISUAL_DEFAULTS.buttonBackground)),
            !.textColor = orElse(node.textColor, Some(VISUAL_DEFAULTS.buttonTextColor)),
            !.borderRadius = orElse(node.borderRadius, Some(VISUAL_DEFAULTS.buttonBorderRadius))]
    ELSE IF node.type = "container"
    THEN LET isInput == isInputContainer(node)
         IN  [node EXCEPT
                !.background = orElse(node.background, Some(VISUAL_DEFAULTS.containerBackground)),
                !.borderRadius =
                    orElse(node.borderRadius,
                           IF isInput THEN None ELSE Some(VISUAL_DEFAULTS.containerBorderRadius)),
                !.border =
                    orElse(node.border,
                           IF isInput THEN Some(VISUAL_DEFAULTS.inputBorder) ELSE None),
                !.children = [i \in 1..Len(node.children) |-> applyNodeDefaults(node.children[i])]]
    ELSE node

applyVisualDefaults(spec, targetLayout) ==
    LET dimensions == defaultDimensions(targetLayout)
        frame == [spec.frame EXCEPT
                    !.height = orElse(spec.frame.height, Some(dimensions.height)),
                    !.background = orElse(spec.frame.background,
                                          Some(VISUAL_DEFAULTS.containerBackground)),
                    !.borderRadius = orElse(spec.frame.borderRadius,
                                            Some(VISUAL_DEFAULTS.containerBorderRadius))]
    IN  [spec EXCEPT
            !.frame = frame,
            !.nodes = [i \in 1..Len(spec.nodes) |-> applyNodeDefaults(spec.nodes[i])]]

(***************************************************************************)
(* validateVisualUsage (spec/validation/validateVisualUsage.ts)            *)
(***************************************************************************)
\* the truth value JavaScript gives an optional string: undefined and ""
\* are falsy
truthyString(o) == IsSome(o) /\ o[1] # ""

\* the truth value JavaScript gives an optional number: undefined and 0
\* are falsy
truthyNumber(o) == IsSome(o) /\ o[1] # 0

\* mutant: the words are looked for without lowering the case
isInputLikeContainer_caseSensitive(node) ==
    IF ~IsSome(node.border) THEN FALSE
    ELSE \E i \in 1..Len(node.children) :
            /\ node.children[i].type = "text"
            /\ \/ includes(node.children[i].content, <<"e", "n", "t", "e", "r">>)
               \/ includes(node.children[i].content,
                           <<"p", "l", "a", "c", "e", "h", "o", "l", "d", "e", "r">>)
               \/ includes(node.children[i].content, <<"h", "i", "n", "t">>)

isInputLikeContainer(node) ==
    IF ~IsSome(node.border) THEN FALSE
    ELSE \E i \in 1..Len(node.children) :
            /\ node.children[i].type = "text"
            /\ \/ includes(toLowerCase(node.children[i].content), <<"e", "n", "t", "e", "r">>)
               \/ includes(toLowerCase(node.children[i].content),
                           <<"p", "l", "a", "c", "e", "h", "o", "l", "d", "e", "r">>)
               \/ includes(toLowerCase(node.children[i].content), <<"h", "i", "n", "t">>)

isCardLikeContainer(node) ==
    IF ~truthyString(node.background) \/ ~truthyNumber(node.borderRadius) THEN FALSE
    ELSE IF node.padding >= 16 THEN TRUE
    ELSE IF node.padding > 0 /\ Len(node.children) >= 2 THEN TRUE
    ELSE FALSE

hasVisualStyling(node) ==
    truthyString(node.background) \/ truthyNumber(node.borderRadius) \/ IsSome(node.border)

\* path segments: a string or a number
StringSegment(text) == [isNumber |-> FALSE, text |-> text, number |-> 0]

NumberSegment(number) == [isNumber |-> TRUE, text |-> <<>>, number |-> number]

SegNodes == <<"n", "o", "d", "e", "s">>

SegChildren == <<"c", "h", "i", "l", "d", "r", "e", "n">>

Digits == <<"0", "1", "2", "3", "4", "5", "6", "7", "8", "9">>

\* `${segment}` of a non-negative integer: its decimal digits
RECURSIVE numberToString(_)
numberToString(n) ==
    IF n < 10 THEN <<Digits[n + 1]>>
    ELSE numberToString(n \div 10) \o <<Digits[(n % 10) + 1]>>

\* parts after the first i iterations of the loop of buildPath
RECURSIVE buildParts(_, _)
buildParts(segments, i) ==
    IF i = 0 THEN <<>>
    ELSE LET segment == segments[i]
             parts == buildParts(segments, i - 1)
         IN  IF segment.isNumber
             THEN IF i > 1 /\ ~segments[i - 1].isNumber
                           /\ segments[i - 1].text \in {SegNodes, SegChildren}
                  THEN Append(parts, segments[i - 1].text \o <<"[">>
                                        \o numberToString(segment.number) \o <<"]">>)
                  ELSE Append(parts, <<"[">> \o numberToString(segment.number) \o <<"]">>)
             ELSE IF segment.text \notin {SegNodes, SegChildren}
                  THEN Append(parts, segment.text)
                  ELSE parts

\* parts.join(sep)
RECURSIVE join(_, _)
join(parts, sep) ==
    IF parts = <<>> THEN <<>>
    ELSE IF Len(parts) = 1 THEN parts[1]
    ELSE parts[1] \o sep \o join(Tail(parts), sep)

buildPath(segments) == join(buildParts(segments, Len(segments)), <<".">>)

\* the properties listed in a warning
warningProperties(container) ==
    (IF truthyString(container.background)
     THEN <<"background=\"" \o container.background[1] \o "\"">> ELSE <<>>)
    \o (IF IsSome(container.borderRadius)
        THEN <<"borderRadius=" \o ToString(container.borderRadius[1])>> ELSE <<>>)
    \o (IF IsSome(container.border) THEN <<"border">> ELSE <<>>)

LayoutOnlyReason ==
    "Container appears to be layout-only (grouping/alignment) but has visual styling. "
    \o "Layout containers should not have background, borderRadius, or border properties. "
    \o "Only surface containers (cards, inputs) should have visual styling."

\* mutant: the index is counted from one
childSegments_oneBased(pathSegments, index) ==
    pathSegments \o <<StringSegment(SegChildren), NumberSegment(index + 1)>>

\* [...pathSegments, "children", index]
childSegments(pathSegments, index) ==
    pathSegments \o <<StringSegment(SegChildren), NumberSegment(index)>>

\* traverseNode, returning the warnings it pushes, in the order of the
\* pushes; traverseChildren is container.children.forEach, from child i on
RECURSIVE traverseNode(_, _), traverseChildren(_, _, _)
traverseNode(node, pathSegments) ==
    IF node.type # "container" THEN <<>>
    ELSE IF ~hasVisualStyling(node)
    THEN traverseChildren(node.children, pathSegments, 1)
    ELSE LET isInput == isInputLikeContainer(node)
             isCard == isCardLikeContainer(node)
             pushed == IF ~isInput /\ ~isCard
                       THEN << [path |-> buildPath(pathSegments),
                                properties |-> warningProperties(node),
                                reason |-> LayoutOnlyReason] >>
                       ELSE <<>>
         IN  pushed \o traverseChildren(node.children, pathSegments, 1)

traverseChildren(children, pathSegments, i) ==
    IF i > Len(children) THEN <<>>
    ELSE traverseNode(children[i], childSegments(pathSegments, i - 1))
         \o traverseChildren(children, pathSegments, i + 1)

\* spec.nodes.forEach, from node i on
RECURSIVE traverseRoots(_, _)
traverseRoots(nodes, i) ==
    IF i > Len(nodes) THEN <<>>
    ELSE traverseNode(nodes[i], <<StringSegment(SegNodes), NumberSegment(i - 1)>>)
         \o traverseRoots(nodes, i + 1)

validateVisualUsage(spec) == traverseRoots(spec.nodes, 1)

(***************************************************************************)
(* generateDesignSpec: the request, the backend's answers                  *)
(***************************************************************************)
TargetLayouts == {"mobile", "tablet", "desktop"}

\* DEFAULT_GENERATION_CONTEXT.targetLayout
DefaultTargetLayout == "mobile"

\* (request.generationContext ?? DEFAULT_GENERATION_CONTEXT).targetLayout
targetLayoutOf(context) == IF IsSome(context) THEN context[1] ELSE DefaultTargetLayout

mockSpec ==
    DesignSpec("Mock Page",
        Frame("Mock Frame", 400, Some(800), "vertical", 16, 24, Some("#FFFFFF"), Some(12), None),
        << TextNode(<<"M", "o", "c", "k", " ", "c", "o", "n", "t", "e", "n", "t">>,
                    Some(16), Some("#111111")),
           ContainerNode("vertical", 12, 16,
                << TextNode(<<"N", "e", "s", "t", "e", "d", " ", "t", "e", "x", "t">>,
                            Some(14), Some("#111111")) >>,
                Some("#FFFFFF"), Some(12), None),
           ButtonNode("Mock Button", Some("#2563EB"), Some("#FFFFFF"), Some(8)) >>)

\* ---- trees the backend may answer with ----
\* ordered forests with exactly n nodes: leaves from Leaves, inner nodes
\* are the containers of Shells given their children
RECURSIVE ForestsOfSize(_, _, _)
TreesOfSize(n, Leaves, Shells) ==
    IF n = 1 THEN Leaves
    ELSE {[sh EXCEPT !.children = ch] :
            sh \in Shells, ch \in ForestsOfSize(n - 1, Leaves, Shells)}

ForestsOfSize(n, Leaves, Shells) ==
    IF n = 0 THEN {<<>>}
    ELSE UNION {
            {<<t>> \o f : t \in TreesOfSize(k, Leaves, Shells),
                          f \in ForestsOfSize(n - k, Leaves, Shells)} : k \in 1..n}

ForestsUpTo(n, Leaves, Shells) ==
    UNION {ForestsOfSize(k, Leaves, Shells) : k \in 1..n}

PlainFrame == Frame("Main", 400, None, "vertical", 16, 24, None, None, None)

\* plain trees: blank texts under containers without styling, enough of
\* them for the placeholder counter to wrap around (StyledSpecs mixes blank
\* and non-blank texts)
PlainLeaves == { TextNode(<<" ">>, None, None) }

PlainShells == { ContainerNode("vertical", 8, 0, <<>>, None, None, None) }

PlainSpecs ==
    {DesignSpec("Login", PlainFrame, f) : f \in ForestsUpTo(MaxNodes, PlainLeaves, PlainShells)}

\* styled and malformed trees: every kind of text content, set and unset
\* attributes, and the values the schema rejects
StyledLeaves ==
    { TextNode(<<>>, None, None),
      TextNode(<<"\t", "\n">>, Some(14), Some("#333333")),
      TextNode(<<" ", "a", " ">>, None, None),
      TextNode(<<"E", "n", "t", "e", "r", " ", "n", "a", "m", "e">>, None, None),
      TextNode(<<"O", "k">>, Some(0), None),
      ButtonNode("Go", Some("red"), None, Some(4)),
      ButtonNode("", None, None, None),
      ContainerNode("vertical", 8, 16, <<>>, None, None, None),
      [type |-> "image"] }

StyledShells ==
    { ContainerNode("vertical", 8, 0, <<>>, None, None, None),
      ContainerNode("horizontal", 12, 16, <<>>, Some("#F9FAFB"), Some(0), None),
      ContainerNode("vertical", 0, 12, <<>>, None, None, Some(Border("#D1D5DB", 1))) }

StyledFrames ==
    { PlainFrame,
      Frame("Main", 768, Some(1024), "horizontal", 0, 0, Some("#F9FAFB"), Some(0),
            Some(Border("#000000", 2))),
      Frame("Main", 0 - 100, None, "vertical", 16, 24, None, None, None) }

StyledSpecs ==
    {DesignSpec("Login", PlainFrame, f) :
        f \in ForestsUpTo(MaxStyledNodes, StyledLeaves, StyledShells)}

\* documents that differ in the page and the frame, over at most one node
FrameSpecs ==
    {DesignSpec(page, frame, f) :
        page \in {"Login", ""}, frame \in StyledFrames,
        f \in {<<>>} \cup ForestsUpTo(1, StyledLeaves, StyledShells)}

\* trees for the layout/surface classification: containers with each
\* combination of styling and padding the classification tells apart,
\* around a plain text and a text that reads as a hint
VisualLeaves ==
    { TextNode(<<"T", "i", "t", "l", "e">>, None, None),
      TextNode(<<"H", "I", "N", "T">>, None, None) }

VisualShells ==
    { ContainerNode("vertical", 8, 0, <<>>, None, None, None),
      ContainerNode("vertical", 8, 0, <<>>, None, Some(12), None),
      ContainerNode("vertical", 8, 0, <<>>, None, Some(0), None),
      ContainerNode("vertical", 8, 8, <<>>, Some("#FFFFFF"), Some(8), None),
      ContainerNode("vertical", 16, 24, <<>>, Some("#FFFFFF"), Some(12), None),
      ContainerNode("horizontal", 0, 12, <<>>, Some("#FFFFFF"), None,
                    Some(Border("#D1D5DB", 1))) }

VisualSpecs ==
    {DesignSpec("Login", PlainFrame, f) :
        f \in ForestsUpTo(MaxVisualNodes, VisualLeaves, VisualShells)}

\* two containers side by side, each with its own styling: under the root,
\* and as the children of a container that follows a text
SiblingSpecs ==
    LET title == TextNode(<<"T", "i", "t", "l", "e">>, None, None)
        hint == TextNode(<<"H", "I", "N", "T">>, None, None)
        pairs == {<<[a EXCEPT !.children = <<title>>],
                    [b EXCEPT !.children = <<hint, title>>]>> :
                        a \in VisualShells, b \in VisualShells}
    IN  {DesignSpec("Login", PlainFrame, pair) : pair \in pairs}
        \cup {DesignSpec("Login", PlainFrame, <<title, [outer EXCEPT !.children = pair]>>) :
                outer \in VisualShells, pair \in pairs}

\* values JSON.parse can return: a document shaped like a DesignSpec, or a
\* JSON value that is no object
JsonValues ==
    PlainSpecs \cup StyledSpecs \cup FrameSpecs \cup VisualSpecs \cup SiblingSpecs
        \cup {[kind |-> "number"]}

\* message.content of the first choice.  A content is a text; the model keeps
\* of it whether it is the empty string, and what JSON.parse makes of it:
\* wellFormed with the value it denotes, or a syntax error.
JsonText(v) == [empty |-> FALSE, wellFormed |-> TRUE, denotes |-> Some(v)]

EmptyText == [empty |-> TRUE, wellFormed |-> FALSE, denotes |-> None]

BrokenText == [empty |-> FALSE, wellFormed |-> FALSE, denotes |-> None]

\* completion.choices[0]?.message?.content: None when there is no choice, no
\* message or no content
BackendContents ==
    {None, Some(EmptyText), Some(BrokenText)} \cup {Some(JsonText(v)) : v \in JsonValues}

(***************************************************************************)
(* generateDesignSpec: the code after the backend call                     *)
(***************************************************************************)
Returned(spec) == [kind |-> "returned", spec |-> Some(spec), error |-> None]

Thrown(message) == [kind |-> "thrown", spec |-> None, error |-> Some(message)]

\* mutant: only an absent content counts as empty
isEmptyResponse_onlyAbsent(content) == content = None

\* if (!content)
isEmptyResponse(content) == content = None \/ content[1].empty

\* JSON.parse(content): the value, or None for a SyntaxError
JSONparse(text) == IF text.wellFormed THEN text.denotes ELSE None

\* designSpecSchema.safeParse(parsed)
safeParse(parsed) == [success |-> designSpecSchema(parsed), data |-> parsed]

\* the repair passes of a validated spec, in the order of the code
repair(data, targetLayout) ==
    applyVisualDefaults(ensureNonEmptyTextContent(data), targetLayout)

\* from "const content = ..." to the return: how the call ends, the passes
\* that ran and the warnings of validateVisualUsage
processCompletion(content, targetLayout) ==
    IF isEmptyResponse(content)
    THEN [end |-> Thrown("Empty response from OpenAI"), passes |-> <<>>, warnings |-> <<>>]
    ELSE LET parsed == JSONparse(content[1])
         IN  IF parsed = None
             THEN [end |-> Thrown("Invalid JSON response from OpenAI"), passes |-> <<>>,
                   warnings |-> <<>>]
             ELSE LET validationResult == safeParse(parsed[1])
                  IN  IF ~validationResult.success
                      THEN [end |-> Thrown("Invalid DesignSpec"), passes |-> <<>>,
                            warnings |-> <<>>]
                      ELSE LET fixedSpec == repair(validationResult.data, targetLayout)
                           IN  [end |-> Returned(fixedSpec),
                                passes |-> <<"ensureNonEmptyTextContent",
                                             "applyVisualDefaults">>,
                                warnings |-> validateVisualUsage(fixedSpec)]

(***************************************************************************)
(* generateDesignSpec as a state machine                                   *)
(***************************************************************************)
InitGen ==
    /\ gpc = "start"
    /\ dryRun \in BOOLEAN
    /\ requestContext \in Opt(TargetLayouts)
    /\ backendCalls = 0
    /\ response = None
    /\ passes = <<>>
    /\ warnings = <<>>
    /\ generated = None
    /\ maxRetries = 0
    /\ baseRetryMs = 0
    /\ rpc = "off"
    /\ attempt = 0
    /\ retryCount = 0
    /\ lastError = None
    /\ calls = <<>>
    /\ sleeps = <<>>
    /\ result = None
    /\ RulesOff
    /\ HashOff

\* mutant: the backend is called before the mock spec is returned
DryRunReturns_afterBackendCall ==
    /\ gpc = "start"
    /\ dryRun
    /\ backendCalls' = backendCalls + 1
    /\ generated' = Some(Returned(applyVisualDefaults(mockSpec, targetLayoutOf(requestContext))))
    /\ passes' = <<"applyVisualDefaults">>
    /\ gpc' = "done"
    /\ UNCHANGED <<dryRun, requestContext, response, warnings>>
    /\ UNCHANGED <<varsRetry, varsRules, varsHash>>

\* dryRun: the mock spec is returned through applyVisualDefaults
DryRunReturns ==
    /\ gpc = "start"
    /\ dryRun
    /\ generated' = Some(Returned(applyVisualDefaults(mockSpec, targetLayoutOf(requestContext))))
    /\ passes' = <<"applyVisualDefaults">>
    /\ gpc' = "done"
    /\ UNCHANGED <<dryRun, requestContext, backendCalls, response, warnings>>
    /\ UNCHANGED <<varsRetry, varsRules, varsHash>>

\* await openai.chat.completions.create(requestOptions) is issued
CallBackend ==
    /\ gpc = "start"
    /\ ~dryRun
    /\ backendCalls' = backendCalls + 1
    /\ gpc' = "awaiting"
    /\ UNCHANGED <<dryRun, requestContext, response, passes, warnings, generated>>
    /\ UNCHANGED <<varsRetry, varsRules, varsHash>>

\* the call resolves with a completion; the rest of the function runs
BackendResolves ==
    /\ gpc = "awaiting"
    /\ \E content \in BackendContents :
        LET done == processCompletion(content, targetLayoutOf(requestContext))
        IN  /\ response' = Some([settled |-> "resolved", content |-> content])
            /\ generated' = Some(done.end)
            /\ passes' = done.passes
            /\ warnings' = done.warnings
    /\ gpc' = "done"
    /\ UNCHANGED <<dryRun, requestContext, backendCalls>>
    /\ UNCHANGED <<varsRetry, varsRules, varsHash>>

\* the call rejects; the error is logged and thrown again
BackendRejects ==
    /\ gpc = "awaiting"
    /\ response' = Some([settled |-> "rejected", content |-> None])
    /\ generated' = Some(Thrown("backend error"))
    /\ gpc' = "done"
    /\ UNCHANGED <<dryRun, requestContext, backendCalls, passes, warnings>>
    /\ UNCHANGED <<varsRetry, varsRules, varsHash>>

NextGen ==
    \/ DryRunReturns
    \/ CallBackend
    \/ BackendResolves
    \/ BackendRejects

SpecGen == InitGen /\ [][NextGen]_vars


(***************************************************************************)
(* Properties of makeOpenAIRequestWithRetry                                *)
(***************************************************************************)
\* the call ended with an error that carries one of the retryable statuses
FailsWithRetryableStatus(call) ==
    /\ call.kind = "failure"
    /\ call.error.hasStatus
    /\ call.error.status \in RetryableStatuses

\* the message reads as a timeout or as a connection reset, in any case
IndicatesTimeoutOrReset(msg) ==
    \/ includes(toLowerCase(msg), <<"t", "i", "m", "e", "o", "u", "t">>)
    \/ includes(toLowerCase(msg), <<"e", "t", "i", "m", "e", "d", "o", "u", "t">>)
    \/ includes(toLowerCase(msg), <<"e", "c", "o", "n", "n", "r", "e", "s", "e", "t">>)

IsConnectionReset(call) ==
    /\ call.kind = "failure"
    /\ call.error.isError
    /\ ~call.error.hasStatus
    /\ includes(toLowerCase(call.error.message),
                <<"e", "c", "o", "n", "n", "r", "e", "s", "e", "t">>)

\* C1: for every k in 0..OPENAI_RETRY_MAX, when the first k backend calls
\* failed with a retryable status and call k+1 succeeded, the request has
\* returned outcome=success with retryCount=k and the completion of call k+1.
C1_SuccessAfterKFailures ==
    \A k \in 0..maxRetries :
        ( /\ Len(calls) = k + 1
          /\ \A i \in 1..k : FailsWithRetryableStatus(calls[i])
          /\ calls[k + 1].kind = "success" )
        => /\ rpc = "done"
           /\ IsSome(result)
           /\ result[1].outcome = "success"
           /\ result[1].retryCount = k
           /\ result[1].completion = Some(calls[k + 1].completion)
           /\ calls[k + 1].completion.callNo = k + 1

\* two 503 failures, then a success, reported with retryCount = 2
C1_Witness ==
    /\ Len(calls) = 3
    /\ calls[1] = CallFailure(StatusError(503, StrUnavailable))
    /\ calls[2] = CallFailure(StatusError(503, StrUnavailable))
    /\ calls[3].kind = "success"
    /\ IsSome(result)
    /\ result[1].retryCount = 2

\* C2: a timeout is never retried: a call that ended by the timeout is the
\* last call, the request has returned outcome=timeout with retryCount equal
\* to the retries made before that call, no backoff wait follows it, and a
\* timeout on the first call gives exactly one call and retryCount=0.
C2_TimeoutNeverRetried ==
    \A i \in 1..Len(calls) :
        calls[i].kind = "timeout"
        => /\ i = Len(calls)
           /\ rpc = "done"
           /\ IsSome(result)
           /\ result[1].outcome = "timeout"
           /\ result[1].retryCount = i - 1
           /\ Len(sleeps) = i - 1
           /\ (i = 1 => result[1].retryCount = 0 /\ Len(calls) = 1)

\* the second call, made after one retry, ends by the timeout
C2_Witness ==
    /\ rpc = "done"
    /\ Len(calls) = 2
    /\ calls[2].kind = "timeout"
    /\ result[1].outcome = "timeout"
    /\ result[1].retryCount = 1

\* C3: whenever a call fails with an error whose status is 429, 500, 502,
\* 503 or 504 and fewer than OPENAI_RETRY_MAX retries have been made, the
\* request waits the backoff and does not end at that call, whatever the
\* message of the error.
C3_RetryableStatusIsRetried ==
    \A i \in 1..Len(calls) :
        (FailsWithRetryableStatus(calls[i]) /\ i - 1 < maxRetries)
        => /\ Len(sleeps) >= i
           /\ (rpc = "done" => Len(calls) > i)

\* C4: when a call fails with a non-retryable error (a status outside the
\* retryable set, or no status and a message that indicates neither a
\* timeout nor a connection reset), it is the last call and the request has
\* returned outcome=error with retryCount equal to the retries made before.
C4_NonRetryableShortCircuits ==
    \A i \in 1..Len(calls) :
        ( /\ calls[i].kind = "failure"
          /\ \/ calls[i].error.hasStatus /\ calls[i].error.status \notin RetryableStatuses
             \/ ~calls[i].error.hasStatus /\ ~IndicatesTimeoutOrReset(calls[i].error.message) )
        => /\ i = Len(calls)
           /\ rpc = "done"
           /\ IsSome(result)
           /\ result[1].outcome = "error"
           /\ result[1].retryCount = i - 1
           /\ Len(sleeps) = i - 1

\* C5: in every returned result retryCount is the number of backend calls
\* made minus one and is at most OPENAI_RETRY_MAX; at most
\* OPENAI_RETRY_MAX + 1 backend calls are ever made.
C5_RetryCountIsCallsMinusOne ==
    /\ Len(calls) <= maxRetries + 1
    /\ IsSome(result) => /\ result[1].retryCount = Len(calls) - 1
                         /\ result[1].retryCount <= maxRetries

\* both retries used: three calls, then the request ends in error
C5_Witness ==
    /\ IsSome(result)
    /\ maxRetries = 2
    /\ Len(calls) = 3
    /\ result[1].retryCount = 2
    /\ result[1].outcome = "error"

\* C6 (as claimed): when retries are exhausted and the last observed error
\* is a connection reset, the request reports outcome=timeout.
C6_ResetReportedAsTimeout ==
    ( /\ rpc = "done"
      /\ Len(calls) = maxRetries + 1
      /\ IsConnectionReset(calls[Len(calls)]) )
    => result[1].outcome = "timeout"

\* C6 (amended): when retries are exhausted and the last observed error is
\* a connection reset, the request reports outcome=error; outcome=timeout
\* is reported only for an Error whose message contains "timeout", which is
\* the timeout branch of the catch block.
C6_ResetReportedAsError ==
    /\ ( /\ rpc = "done"
         /\ Len(calls) = maxRetries + 1
         /\ IsConnectionReset(calls[Len(calls)]) )
       => result[1].outcome = "error"
    /\ (IsSome(result) /\ result[1].outcome = "timeout")
       => /\ lastError[1].isError
          /\ includes(lastError[1].message, <<"t", "i", "m", "e", "o", "u", "t">>)

\* 503, 503, then a connection reset on the last attempt
C6_Witness ==
    /\ rpc = "done"
    /\ maxRetries = 2
    /\ Len(calls) = 3
    /\ calls[1] = CallFailure(StatusError(503, StrUnavailable))
    /\ calls[2] = CallFailure(StatusError(503, StrUnavailable))
    /\ calls[3] = CallFailure(PlainError(StrReadEconnreset))
    /\ IsSome(result)

\* C7: the n-th wait (n from 1) is OPENAI_RETRY_BASE_MS * 2^(n-1) and
\* follows the failed call n; there is no wait before the first call and
\* none after the call that ends the request.
C7_ExponentialBackoff ==
    /\ \A n \in 1..Len(sleeps) :
        /\ sleeps[n] = baseRetryMs * 2 ^ (n - 1)
        /\ n <= Len(calls)
        /\ calls[n].kind = "failure"
    /\ (calls = <<>> => sleeps = <<>>)
    /\ (rpc = "done" => Len(sleeps) = Len(calls) - 1)
    /\ (rpc = "attempt" => Len(sleeps) = Len(calls))

\* three waits: base, 2*base, 4*base
C7_Witness ==
    /\ rpc = "done"
    /\ Len(calls) = 4
    /\ sleeps = <<baseRetryMs, 2 * baseRetryMs, 4 * baseRetryMs>>

(***************************************************************************)
(* Properties of generateDesignSpec and of the empty-text repair           *)
(***************************************************************************)
\* the content the backend call resolved with, when it resolved
Resolved == IsSome(response) /\ response[1].settled = "resolved"

\* the JSON value of a resolved, non-empty, well-formed content
HasDocument ==
    /\ Resolved
    /\ IsSome(response[1].content)
    /\ ~response[1].content[1].empty
    /\ response[1].content[1].wellFormed

Document == response[1].content[1].denotes[1]

\* a string with no character other than white space, the empty one included
IsBlankString(str) == \A i \in 1..Len(str) : str[i] \in WhiteSpace

\* the contents of the text nodes in depth-first pre-order: root nodes left
\* to right, the children of a container left to right
RECURSIVE PreorderTexts(_)
PreorderTexts(nodes) ==
    IF nodes = <<>> THEN <<>>
    ELSE LET node == Head(nodes)
             here == IF node.type = "text" THEN <<node.content>>
                     ELSE IF node.type = "container" THEN PreorderTexts(node.children)
                     ELSE <<>>
         IN  here \o PreorderTexts(Tail(nodes))

\* the nesting depth of the deepest blank text (0: there is none)
RECURSIVE BlankDepth(_)
BlankDepth(nodes) ==
    IF nodes = <<>> THEN 0
    ELSE LET node == Head(nodes)
             here == IF node.type = "text"
                     THEN (IF IsBlankString(node.content) THEN 1 ELSE 0)
                     ELSE IF node.type = "container"
                     THEN (IF BlankDepth(node.children) > 0
                           THEN 1 + BlankDepth(node.children) ELSE 0)
                     ELSE 0
             rest == BlankDepth(Tail(nodes))
         IN  IF here > rest THEN here ELSE rest

\* C8: without dry-run a spec is returned only when the backend call
\* resolved with a non-empty content that parsed as JSON and passed the
\* schema; otherwise the call throws, returns no spec and runs no repair
\* pass: 'Empty response' for a missing or empty content, 'Invalid JSON' for
\* a content that does not parse, 'Invalid DesignSpec' for a schema failure.
C8_SpecOnlyAfterValidation ==
    (gpc = "done" /\ ~dryRun) =>
        LET end == generated[1]
            content == response[1].content
        IN  /\ end.kind = "returned" <=> (HasDocument /\ designSpecSchema(Document))
            /\ end.kind = "returned" => IsSome(end.spec) /\ end.error = None
            /\ end.kind = "thrown" => end.spec = None /\ passes = <<>>
            /\ (Resolved /\ (content = None \/ content[1].empty))
               => end = Thrown("Empty response from OpenAI")
            /\ (Resolved /\ IsSome(content) /\ ~content[1].empty /\ ~content[1].wellFormed)
               => end = Thrown("Invalid JSON response from OpenAI")
            /\ (HasDocument /\ ~designSpecSchema(Document))
               => end = Thrown("Invalid DesignSpec")

\* a document whose nested container has no children is refused unrepaired
C8_Witness ==
    /\ gpc = "done"
    /\ HasDocument
    /\ Document.kind = "object"
    /\ Len(Document.nodes) = 1
    /\ Document.nodes[1].type = "container"
    /\ Len(Document.nodes[1].children) = 2
    /\ Document.nodes[1].children[1].type = "text"
    /\ IsBlankString(Document.nodes[1].children[1].content)
    /\ Document.nodes[1].children[2].type = "container"
    /\ Document.nodes[1].children[2].children = <<>>
    /\ generated[1] = Thrown("Invalid DesignSpec")

\* C9: after ensureNonEmptyTextContent no text node at any depth is empty
\* or white space only, for every schema-valid document; so no spec
\* returned without dry-run holds such a text node.
C9_NoBlankTextAfterRepair ==
    /\ (HasDocument /\ designSpecSchema(Document))
       => LET texts == PreorderTexts(ensureNonEmptyTextContent(Document).nodes)
          IN  \A i \in 1..Len(texts) : ~IsBlankString(texts[i])
    /\ (gpc = "done" /\ ~dryRun /\ generated[1].kind = "returned")
       => LET texts == PreorderTexts(generated[1].spec[1].nodes)
          IN  \A i \in 1..Len(texts) : ~IsBlankString(texts[i])

\* a spec was returned for a document with a blank text two containers deep
C9_Witness ==
    /\ gpc = "done"
    /\ ~dryRun
    /\ generated[1].kind = "returned"
    /\ BlankDepth(Document.nodes) >= 3

\* the number of blank strings among the first i elements of texts
RECURSIVE BlanksUpTo(_, _)
BlanksUpTo(texts, i) ==
    IF i = 0 THEN 0
    ELSE BlanksUpTo(texts, i - 1) + (IF IsBlankString(texts[i]) THEN 1 ELSE 0)

\* C10: ensureNonEmptyTextContent gives the k-th blank text in depth-first
\* pre-order the placeholder at index (k-1) mod 5 of the fixed list, with
\* one counter for the whole tree that starts at 0; a text that is not
\* blank keeps its content and does not advance the counter.
C10_PlaceholdersInPreorder ==
    (HasDocument /\ designSpecSchema(Document)) =>
        LET before == PreorderTexts(Document.nodes)
            after == PreorderTexts(ensureNonEmptyTextContent(Document).nodes)
        IN  /\ Len(after) = Len(before)
            /\ \A i \in 1..Len(before) :
                IF IsBlankString(before[i])
                THEN after[i] = placeholderTexts[((BlanksUpTo(before, i) - 1) % 5) + 1]
                ELSE after[i] = before[i]
            /\ gpc = "done" => PreorderTexts(generated[1].spec[1].nodes) = after

\* six blank texts, the first ones inside a container: the sixth gets the
\* first placeholder again
C10_Witness ==
    /\ gpc = "done"
    /\ HasDocument
    /\ designSpecSchema(Document)
    /\ Document.nodes[1].type = "container"
    /\ LET before == PreorderTexts(Document.nodes)
           after == PreorderTexts(generated[1].spec[1].nodes)
       IN  /\ Len(before) = 6
           /\ \A i \in 1..6 : IsBlankString(before[i])
           /\ after[6] = placeholderTexts[1]
           /\ after[5] = placeholderTexts[5]

\* no text node at any depth is empty or white space only
NoBlankText(nodes) ==
    \A i \in 1..Len(PreorderTexts(nodes)) : ~IsBlankString(PreorderTexts(nodes)[i])

\* C11: the empty-text repair is idempotent: for every schema-valid
\* document, running ensureNonEmptyTextContent on its own result gives a
\* structurally equal tree, and on a tree with no blank text the pass
\* returns a structurally equal tree.
C11_EmptyTextRepairIdempotent ==
    (HasDocument /\ designSpecSchema(Document)) =>
        LET once == ensureNonEmptyTextContent(Document)
        IN  /\ ensureNonEmptyTextContent(once) = once
            /\ NoBlankText(Document.nodes) => once = Document

\* the pass changed a document with five blank texts or more, some of them
\* nested, and changes nothing when run on its own result
C11_Witness ==
    /\ gpc = "done"
    /\ HasDocument
    /\ designSpecSchema(Document)
    /\ BlanksUpTo(PreorderTexts(Document.nodes), Len(PreorderTexts(Document.nodes))) >= 5
    /\ BlankDepth(Document.nodes) >= 2
    /\ ensureNonEmptyTextContent(Document) # Document
    /\ ensureNonEmptyTextContent(ensureNonEmptyTextContent(Document))
            = ensureNonEmptyTextContent(Document)

(***************************************************************************)
(* Properties of applyVisualDefaults                                       *)
(***************************************************************************)
\* each of the attributes that has a value in before has that value in after
KeepsAttributes(before, after, attributes) ==
    \A a \in attributes : IsSome(before[a]) => after[a] = before[a]

\* node by node, at every depth, the attributes set in before are kept
RECURSIVE NodesKeepAttributes(_, _)
NodesKeepAttributes(before, after) ==
    /\ Len(after) = Len(before)
    /\ \A i \in 1..Len(before) :
        LET b == before[i]
            a == after[i]
        IN  /\ a.type = b.type
            /\ CASE b.type = "text" -> KeepsAttributes(b, a, {"color"})
                 [] b.type = "button" ->
                        KeepsAttributes(b, a, {"background", "textColor", "borderRadius"})
                 [] b.type = "container" ->
                        /\ KeepsAttributes(b, a, {"background", "borderRadius", "border"})
                        /\ NodesKeepAttributes(b.children, a.children)

SpecKeepsAttributes(before, after) ==
    /\ KeepsAttributes(before.frame, after.frame, {"height", "background", "borderRadius"})
    /\ NodesKeepAttributes(before.nodes, after.nodes)

\* the spec the call returned
ReturnedSpec == generated[1].spec[1]

IsReturned == gpc = "done" /\ generated[1].kind = "returned"

\* C12: applyVisualDefaults never overwrites an attribute that is already
\* set: frame height, background and borderRadius, text color, button
\* background, textColor and borderRadius, container background,
\* borderRadius and border keep the value they had before the pass, at
\* every depth and for every target layout; so it is for the spec a call
\* returns, against the spec the pass was given.
C12_DefaultsNeverOverwrite ==
    /\ (HasDocument /\ designSpecSchema(Document))
       => \A targetLayout \in TargetLayouts :
            SpecKeepsAttributes(Document, applyVisualDefaults(Document, targetLayout))
    /\ (IsReturned /\ ~dryRun)
       => SpecKeepsAttributes(ensureNonEmptyTextContent(Document), ReturnedSpec)
    /\ (IsReturned /\ dryRun) => SpecKeepsAttributes(mockSpec, ReturnedSpec)

\* a returned spec whose container had background and borderRadius 0 set,
\* with a button and a text that had their own colours
C12_Witness ==
    /\ IsReturned
    /\ ~dryRun
    /\ Len(Document.nodes) = 1
    /\ Document.nodes[1].type = "container"
    /\ Document.nodes[1].background = Some("#F9FAFB")
    /\ Document.nodes[1].borderRadius = Some(0)
    /\ Len(Document.nodes[1].children) = 2
    /\ Document.nodes[1].children[1].type = "button"
    /\ Document.nodes[1].children[1].background = Some("red")
    /\ Document.nodes[1].children[1].textColor = None
    /\ Document.nodes[1].children[2].type = "text"
    /\ Document.nodes[1].children[2].color = Some("#333333")
    /\ ReturnedSpec.nodes[1].borderRadius = Some(0)
    /\ ReturnedSpec.nodes[1].children[1].background = Some("red")
    /\ ReturnedSpec.nodes[1].children[1].textColor = Some("#FFFFFF")

\* word occurs in content, whatever the case of the letters of content
Mentions(content, word) ==
    \E from \in 1..Len(content) :
        /\ from + Len(word) - 1 <= Len(content)
        /\ \A k \in 1..Len(word) : toLowerCaseChar(content[from + k - 1]) = word[k]

\* input-like as the visual defaults understand it: a border, or a direct
\* text child that mentions "enter" or "placeholder"
InputLikeForDefaults(node) ==
    \/ IsSome(node.border)
    \/ \E i \in 1..Len(node.children) :
        /\ node.children[i].type = "text"
        /\ \/ Mentions(node.children[i].content, <<"e", "n", "t", "e", "r">>)
           \/ Mentions(node.children[i].content,
                       <<"p", "l", "a", "c", "e", "h", "o", "l", "d", "e", "r">>)

\* what the pass makes of a container, by its kind
ContainerDefaulted(b, a) ==
    /\ isInputContainer(b) <=> InputLikeForDefaults(b)
    /\ a.background = IF IsSome(b.background) THEN b.background ELSE Some("#FFFFFF")
    /\ IF InputLikeForDefaults(b)
       THEN /\ a.border = IF IsSome(b.border) THEN b.border
                          ELSE Some([color |-> "#D1D5DB", width |-> 1])
            /\ a.borderRadius = b.borderRadius
       ELSE /\ a.borderRadius = IF IsSome(b.borderRadius) THEN b.borderRadius ELSE Some(12)
            /\ a.border = None

RECURSIVE ContainersDefaulted(_, _)
ContainersDefaulted(before, after) ==
    /\ Len(after) = Len(before)
    /\ \A i \in 1..Len(before) :
        before[i].type = "container" =>
            /\ after[i].type = "container"
            /\ ContainerDefaulted(before[i], after[i])
            /\ ContainersDefaulted(before[i].children, after[i].children)

\* C13: applyVisualDefaults treats a container as input-like iff it has a
\* border or one of its direct text children contains "enter" or
\* "placeholder" in any case; an input-like container gets the default
\* background and the default border where unset and its borderRadius is
\* left as it was; any other container gets the default background and the
\* default borderRadius where unset and no border.
C13_ContainerDefaultsByKind ==
    /\ (HasDocument /\ designSpecSchema(Document))
       => \A targetLayout \in TargetLayouts :
            ContainersDefaulted(Document.nodes,
                                applyVisualDefaults(Document, targetLayout).nodes)
    /\ (IsReturned /\ ~dryRun)
       => ContainersDefaulted(ensureNonEmptyTextContent(Document).nodes, ReturnedSpec.nodes)

\* a plain container around a plain container that holds "Enter name": the
\* outer one gets the radius and no border, the inner one the border and
\* no radius
C13_Witness ==
    /\ IsReturned
    /\ ~dryRun
    /\ Len(Document.nodes) = 1
    /\ Document.nodes[1].type = "container"
    /\ Document.nodes[1].border = None
    /\ Document.nodes[1].borderRadius = None
    /\ Len(Document.nodes[1].children) = 1
    /\ Document.nodes[1].children[1].type = "container"
    /\ Document.nodes[1].children[1].border = None
    /\ Document.nodes[1].children[1].borderRadius = None
    /\ Len(Document.nodes[1].children[1].children) = 1
    /\ Document.nodes[1].children[1].children[1].type = "text"
    /\ Document.nodes[1].children[1].children[1].content
            = <<"E", "n", "t", "e", "r", " ", "n", "a", "m", "e">>
    /\ ReturnedSpec.nodes[1].borderRadius = Some(12)
    /\ ReturnedSpec.nodes[1].border = None
    /\ ReturnedSpec.nodes[1].children[1].borderRadius = None
    /\ ReturnedSpec.nodes[1].children[1].border = Some([color |-> "#D1D5DB", width |-> 1])

(***************************************************************************)
(* Properties of validateVisualUsage                                       *)
(***************************************************************************)
\* a container with background, borderRadius or border set
HasStyleSet(node) ==
    IsSome(node.background) \/ IsSome(node.borderRadius) \/ IsSome(node.border)

\* input-like: a border, and a direct text child that mentions "enter",
\* "placeholder" or "hint"
InputLike(node) ==
    /\ IsSome(node.border)
    /\ \E i \in 1..Len(node.children) :
        /\ node.children[i].type = "text"
        /\ \/ Mentions(node.children[i].content, <<"e", "n", "t", "e", "r">>)
           \/ Mentions(node.children[i].content,
                       <<"p", "l", "a", "c", "e", "h", "o", "l", "d", "e", "r">>)
           \/ Mentions(node.children[i].content, <<"h", "i", "n", "t">>)

\* card-like: background and borderRadius both set, and padding >= 16 or
\* padding > 0 with two children or more
CardLike(node) ==
    /\ IsSome(node.background)
    /\ IsSome(node.borderRadius)
    /\ \/ node.padding >= 16
       \/ node.padding > 0 /\ Len(node.children) >= 2

\* the places (index from 0 at each level, root first) of the containers of
\* a forest, at any depth, that satisfy Test
RECURSIVE PlacesWhere(_, _, _)
PlacesWhere(Test(_), nodes, prefix) ==
    UNION { IF nodes[i].type # "container" THEN {}
            ELSE (IF Test(nodes[i]) THEN {prefix \o <<i - 1>>} ELSE {})
                 \cup PlacesWhere(Test, nodes[i].children, prefix \o <<i - 1>>) :
            i \in 1..Len(nodes) }

\* "nodes[i]" followed by one ".children[j]" per further level
RECURSIVE PathText(_)
PathText(place) ==
    IF Len(place) = 1
    THEN <<"n", "o", "d", "e", "s", "[">> \o numberToString(place[1]) \o <<"]">>
    ELSE PathText(SubSeq(place, 1, Len(place) - 1))
         \o <<".", "c", "h", "i", "l", "d", "r", "e", "n", "[">>
         \o numberToString(place[Len(place)]) \o <<"]">>

WarnedPaths(ws) == {ws[i].path : i \in 1..Len(ws)}

\* to be flagged: styled, and neither input-like nor card-like
ToBeFlagged(node) == HasStyleSet(node) /\ ~InputLike(node) /\ ~CardLike(node)

\* the warnings are exactly one for each container of spec that is to be
\* flagged
WarnsExactlyTheFlagged(spec, ws) ==
    LET places == PlacesWhere(ToBeFlagged, spec.nodes, <<>>)
    IN  /\ Len(ws) = Cardinality(places)
        /\ WarnedPaths(ws) = {PathText(place) : place \in places}

\* C14 (as claimed): validateVisualUsage returns exactly one warning for
\* each container, at any depth, that has background, borderRadius or
\* border set and is neither input-like nor card-like, and no warning for
\* any other node, whether or not an ancestor is flagged or styled.
C14_OneWarningPerStyledLayoutContainer ==
    /\ (HasDocument /\ designSpecSchema(Document))
       => WarnsExactlyTheFlagged(Document, validateVisualUsage(Document))
    /\ (IsReturned /\ ~dryRun) => WarnsExactlyTheFlagged(ReturnedSpec, warnings)

\* no container of spec that passes Test is among the warned ones
NeverWarned(Test(_), spec, ws) ==
    \A place \in PlacesWhere(Test, spec.nodes, <<>>) : PathText(place) \notin WarnedPaths(ws)

\* C15 (as claimed): a container with background and borderRadius both set,
\* whatever the value of borderRadius (any integer from 0), and padding
\* >= 16 or padding > 0 with two children or more, is never flagged, at
\* any depth.
C15_CardLikeNeverFlagged ==
    /\ (HasDocument /\ designSpecSchema(Document))
       => NeverWarned(CardLike, Document, validateVisualUsage(Document))
    /\ (IsReturned /\ ~dryRun) => NeverWarned(CardLike, ReturnedSpec, warnings)

\* C16: a container with a border and a direct text child that contains
\* "enter", "placeholder" or "hint" in any case is never flagged,
\* whatever its background, borderRadius, padding, number of children
\* and depth.
C16_InputLikeNeverFlagged ==
    /\ (HasDocument /\ designSpecSchema(Document))
       => NeverWarned(InputLike, Document, validateVisualUsage(Document))
    /\ (IsReturned /\ ~dryRun) => NeverWarned(InputLike, ReturnedSpec, warnings)

\* a bordered container with background holds "HINT" inside a flagged
\* container: the outer one is warned about, the inner one is not
C16_Witness ==
    /\ IsReturned
    /\ ~dryRun
    /\ Len(Document.nodes) = 1
    /\ Document.nodes[1].type = "container"
    /\ Document.nodes[1].borderRadius = Some(12)
    /\ Document.nodes[1].background = None
    /\ Len(Document.nodes[1].children) = 1
    /\ Document.nodes[1].children[1].type = "container"
    /\ IsSome(Document.nodes[1].children[1].border)
    /\ IsSome(Document.nodes[1].children[1].background)
    /\ Document.nodes[1].children[1].children = <<TextNode(<<"H", "I", "N", "T">>, None, None)>>
    /\ WarnedPaths(validateVisualUsage(Document)) = {<<"n", "o", "d", "e", "s", "[", "0", "]">>}
    /\ PlacesWhere(InputLike, ReturnedSpec.nodes, <<>>) = {<<0, 0>>}
    /\ Len(warnings) = 1

\* ---- reading a path back ----
\* the pieces of str between the occurrences of the character sep
RECURSIVE Split(_, _)
Split(str, sep) ==
    IF \A k \in 1..Len(str) : str[k] # sep THEN <<str>>
    ELSE LET at == CHOOSE k \in 1..Len(str) :
                        str[k] = sep /\ \A j \in 1..(k - 1) : str[j] # sep
         IN  <<SubSeq(str, 1, at - 1)>> \o Split(SubSeq(str, at + 1, Len(str)), sep)

IsDigit(c) == c \in {"0", "1", "2", "3", "4", "5", "6", "7", "8", "9"}

DigitValue(c) == CHOOSE d \in 0..9 : numberToString(d) = <<c>>

\* the number written by a non-empty sequence of digits
RECURSIVE NumberOf(_)
NumberOf(digits) ==
    IF Len(digits) = 1 THEN DigitValue(digits[1])
    ELSE 10 * NumberOf(SubSeq(digits, 1, Len(digits) - 1)) + DigitValue(digits[Len(digits)])

\* part reads word "[" digits "]"
IsIndexed(part, word) ==
    /\ Len(part) >= Len(word) + 3
    /\ SubSeq(part, 1, Len(word)) = word
    /\ part[Len(word) + 1] = "["
    /\ part[Len(part)] = "]"
    /\ \A k \in (Len(word) + 2)..(Len(part) - 1) : IsDigit(part[k])

IndexOf(part, word) == NumberOf(SubSeq(part, Len(word) + 2, Len(part) - 1))

WordAt(k) == IF k = 1 THEN <<"n", "o", "d", "e", "s">>
             ELSE <<"c", "h", "i", "l", "d", "r", "e", "n">>

\* path is "nodes[i]" followed by ".children[j]" zero or more times
IsTreePath(path) ==
    LET parts == Split(path, ".")
    IN  \A k \in 1..Len(parts) : IsIndexed(parts[k], WordAt(k))

\* the indices a tree path names, root first
PathIndices(path) ==
    LET parts == Split(path, ".")
    IN  [k \in 1..Len(parts) |-> IndexOf(parts[k], WordAt(k))]

\* the node reached from nodes by following indices (counted from 0)
\* through the children of containers; None when the indices lead nowhere
RECURSIVE NodeAt(_, _)
NodeAt(nodes, indices) ==
    LET i == Head(indices) + 1
    IN  IF i > Len(nodes) THEN None
        ELSE IF Len(indices) = 1 THEN Some(nodes[i])
        ELSE IF nodes[i].type # "container" THEN None
        ELSE NodeAt(nodes[i].children, Tail(indices))

\* the test validateVisualUsage applies before it pushes a warning
PushesWarning(node) ==
    hasVisualStyling(node) /\ ~isInputLikeContainer(node) /\ ~isCardLikeContainer(node)

\* every path reads as a tree path and leads to a container for which a
\* warning is pushed, with the properties of that container; every such
\* container is led to, and no two warnings have the same path
PathsLeadToTheFlagged(spec, ws) ==
    /\ \A w \in 1..Len(ws) :
        /\ IsTreePath(ws[w].path)
        /\ LET found == NodeAt(spec.nodes, PathIndices(ws[w].path))
           IN  /\ IsSome(found)
               /\ found[1].type = "container"
               /\ PushesWarning(found[1])
               /\ ws[w].properties = warningProperties(found[1])
    /\ \A v, w \in 1..Len(ws) : v # w => ws[v].path # ws[w].path
    /\ {PathIndices(ws[w].path) : w \in 1..Len(ws)}
            = PlacesWhere(PushesWarning, spec.nodes, <<>>)

\* C17: the path of each warning is "nodes[i]" followed by one
\* ".children[j]" per nesting level; following those indices from
\* spec.nodes reaches exactly the container the warning is about, and two
\* flagged containers never get the same path.
C17_PathsReachFlaggedContainers ==
    /\ (HasDocument /\ designSpecSchema(Document))
       => PathsLeadToTheFlagged(Document, validateVisualUsage(Document))
    /\ (IsReturned /\ ~dryRun) => PathsLeadToTheFlagged(ReturnedSpec, warnings)

\* a text, then a flagged container whose two children are flagged
\* containers with different styling: three warnings, three paths
C17_Witness ==
    /\ IsReturned
    /\ ~dryRun
    /\ Len(Document.nodes) = 2
    /\ Document.nodes[1].type = "text"
    /\ LET ws == validateVisualUsage(Document)
       IN  /\ Len(ws) = 3
           /\ ws[1].path = <<"n", "o", "d", "e", "s", "[", "1", "]">>
           /\ ws[2].path = <<"n", "o", "d", "e", "s", "[", "1", "]", ".",
                             "c", "h", "i", "l", "d", "r", "e", "n", "[", "0", "]">>
           /\ ws[3].path = <<"n", "o", "d", "e", "s", "[", "1", "]", ".",
                             "c", "h", "i", "l", "d", "r", "e", "n", "[", "1", "]">>
           /\ ws[2].properties = <<"background=\"#FFFFFF\"", "borderRadius=8">>
           /\ ws[3].properties = <<"borderRadius=12">>
    /\ Len(warnings) = 3

(***************************************************************************)
(* Properties of the schema and of what generateDesignSpec returns         *)
(***************************************************************************)
\* the colours of the model that are hex colour strings: "#" followed by
\* six hexadecimal digits
HexColours ==
    {"#FFFFFF", "#F9FAFB", "#D1D5DB", "#2563EB", "#111111", "#6B7280", "#333333", "#000000"}

\* an optional colour is absent or a hex colour string
HexOrAbsent(o) == IsSome(o) => o[1] \in HexColours

BorderOfGrammar(o) == IsSome(o) => (o[1].color \in HexColours /\ o[1].width >= 0)

NonNegativeOrAbsent(o) == IsSome(o) => o[1] >= 0

PositiveOrAbsent(o) == IsSome(o) => o[1] > 0

\* the Node of the data model, children included
RECURSIVE NodeOfGrammar(_)
NodeOfGrammar(n) ==
    CASE n.type = "text" ->
            PositiveOrAbsent(n.fontSize) /\ HexOrAbsent(n.color)
      [] n.type = "button" ->
            /\ n.label # ""
            /\ HexOrAbsent(n.background)
            /\ HexOrAbsent(n.textColor)
            /\ NonNegativeOrAbsent(n.borderRadius)
      [] n.type = "container" ->
            /\ n.layout \in {"vertical", "horizontal"}
            /\ n.gap >= 0
            /\ n.padding >= 0
            /\ Len(n.children) >= 1
            /\ \A i \in 1..Len(n.children) : NodeOfGrammar(n.children[i])
            /\ HexOrAbsent(n.background)
            /\ NonNegativeOrAbsent(n.borderRadius)
            /\ BorderOfGrammar(n.border)
      [] OTHER -> FALSE

\* the DesignSpec of the data model
DesignSpecOfGrammar(spec) ==
    /\ spec.page # ""
    /\ spec.frame.name # ""
    /\ spec.frame.width > 0
    /\ PositiveOrAbsent(spec.frame.height)
    /\ spec.frame.layout \in {"vertical", "horizontal"}
    /\ spec.frame.gap >= 0
    /\ spec.frame.padding >= 0
    /\ HexOrAbsent(spec.frame.background)
    /\ NonNegativeOrAbsent(spec.frame.borderRadius)
    /\ BorderOfGrammar(spec.frame.border)
    /\ Len(spec.nodes) >= 1
    /\ \A i \in 1..Len(spec.nodes) : NodeOfGrammar(spec.nodes[i])

\* C18 (as claimed): every DesignSpec generateDesignSpec returns matches
\* the grammar of the data model, for every backend response that passes
\* validation; in particular every colour attribute present (frame or
\* container background, border colour, text colour, button background
\* and textColor) is a hex colour string.
C18_ReturnedSpecMatchesGrammar ==
    IsReturned => DesignSpecOfGrammar(ReturnedSpec)

\* some container of the forest, at any depth, has no children
RECURSIVE HasEmptyContainer(_)
HasEmptyContainer(nodes) ==
    \E i \in 1..Len(nodes) :
        /\ nodes[i].type = "container"
        /\ \/ nodes[i].children = <<>>
           \/ HasEmptyContainer(nodes[i].children)

\* the depth of the shallowest container without children (0: there is
\* none)
RECURSIVE EmptyContainerDepth(_)
EmptyContainerDepth(nodes) ==
    LET depths == { IF nodes[i].children = <<>> THEN 1
                    ELSE 1 + EmptyContainerDepth(nodes[i].children) :
                        i \in {j \in 1..Len(nodes) :
                                  /\ nodes[j].type = "container"
                                  /\ HasEmptyContainer(<<nodes[j]>>)} }
    IN  IF depths = {} THEN 0 ELSE CHOOSE d \in depths : \A e \in depths : d <= e

\* C19: validation rejects every DesignSpec that holds a container with
\* an empty children array, directly in nodes or inside any chain of
\* nested containers, and reports it as a failure result (success false)
\* and not by throwing; generateDesignSpec turns that result into its
\* "Invalid DesignSpec" error and runs no repair pass.
C19_EmptyChildrenRejected ==
    (HasDocument /\ Document.kind = "object" /\ HasEmptyContainer(Document.nodes)) =>
        /\ safeParse(Document).success = FALSE
        /\ safeParse(Document).data = Document
        /\ gpc = "done" => /\ generated[1] = Thrown("Invalid DesignSpec")
                           /\ passes = <<>>
                           /\ warnings = <<>>

\* a document that is valid but for a container without children two
\* containers deep was refused
C19_Witness ==
    /\ gpc = "done"
    /\ HasDocument
    /\ Document.kind = "object"
    /\ frameSchema(Document.frame)
    /\ Len(Document.nodes) = 1
    /\ EmptyContainerDepth(Document.nodes) = 3
    /\ Document.nodes[1].children[1].children[1].children = <<>>
    /\ layoutSchema(Document.nodes[1].children[1].children[1].layout)
    /\ generated[1] = Thrown("Invalid DesignSpec")

\* the mock spec as the dry run is to return it
DryRunSpec ==
    [kind |-> "object",
     page |-> "Mock Page",
     frame |-> [name |-> "Mock Frame", width |-> 400, height |-> Some(800),
                layout |-> "vertical", gap |-> 16, padding |-> 24,
                background |-> Some("#FFFFFF"), borderRadius |-> Some(12), border |-> None],
     nodes |-> << [type |-> "text",
                   content |-> <<"M", "o", "c", "k", " ", "c", "o", "n", "t", "e", "n", "t">>,
                   fontSize |-> Some(16), color |-> Some("#111111")],
                  [type |-> "container", layout |-> "vertical", gap |-> 12, padding |-> 16,
                   children |-> << [type |-> "text",
                                    content |-> <<"N", "e", "s", "t", "e", "d", " ",
                                                  "t", "e", "x", "t">>,
                                    fontSize |-> Some(14), color |-> Some("#111111")] >>,
                   background |-> Some("#FFFFFF"), borderRadius |-> Some(12),
                   border |-> None],
                  [type |-> "button", label |-> "Mock Button",
                   background |-> Some("#2563EB"), textColor |-> Some("#FFFFFF"),
                   borderRadius |-> Some(8)] >>]

\* C20: with dryRun the backend is never called, whatever the generation
\* context of the request, and the call returns the fixed mock spec (page
\* "Mock Page", frame height 800, a text, a container and a button) in the
\* form the repair pipeline gives it, every visual default present; that
\* spec is schema-valid and gives rise to no warning.
C20_DryRunReturnsMock ==
    dryRun =>
        /\ backendCalls = 0
        /\ response = None
        /\ gpc \in {"start", "done"}
        /\ gpc = "done" =>
            /\ generated[1].kind = "returned"
            /\ ReturnedSpec = DryRunSpec
            /\ ReturnedSpec = repair(mockSpec, targetLayoutOf(requestContext))
            /\ designSpecSchema(ReturnedSpec)
            /\ validateVisualUsage(ReturnedSpec) = <<>>

\* a dry run for a desktop request returned the mock, its height still 800
C20_Witness ==
    /\ dryRun
    /\ gpc = "done"
    /\ requestContext = Some("desktop")
    /\ backendCalls = 0
    /\ ReturnedSpec.page = "Mock Page"
    /\ ReturnedSpec.frame.height = Some(800)
    /\ ReturnedSpec.nodes[3].background = Some("#2563EB")

(***************************************************************************)
(* Paths (node:path).  An absolute path is the sequence of its names       *)
(* after the root "/"; the empty string is the empty sequence.             *)
(***************************************************************************)
Root == <<"/">>

\* join(dir, ...names)
pathJoin(dir, names) == dir \o names

\* resolve(dir, ".."): the root is its own parent
parentDir(dir) == IF dir = Root THEN dir ELSE SubSeq(dir, 1, Len(dir) - 1)

\* resolve(dir, "../" n times)
RECURSIVE ancestorDir(_, _)
ancestorDir(dir, n) == IF n = 0 THEN dir ELSE ancestorDir(parentDir(dir), n - 1)

\* readFileSync(path, "utf-8"): the text of the file, None when it throws
readFileSync(fs, path) == IF path \in DOMAIN fs THEN Some(fs[path]) ELSE None

(***************************************************************************)
(* Rule documents (apps/api/src/spec/prompt/types.ts)                      *)
(***************************************************************************)
BaseRule(name, rules) == [name |-> name, rules |-> rules]

LayoutRule(name, rules, strictRules, balancedRules) ==
    [name |-> name, rules |-> rules, strictRules |-> strictRules,
     balancedRules |-> balancedRules]

DeviceRule(width, height, rules) == [width |-> width, height |-> height, rules |-> rules]

PatternRule(name, detectionKeywords, rules) ==
    [name |-> name, detectionKeywords |-> detectionKeywords, rules |-> rules]

LoadedRules(base, layout, visualBaseline, device, patterns) ==
    [base |-> base, layout |-> layout, visualBaseline |-> visualBaseline,
     device |-> device, patterns |-> patterns]

(***************************************************************************)
(* getSpecRulesDir, loadRuleFile, matchesPattern, loadRules                *)
(* (apps/api/src/spec/prompt/loadRules.ts)                                 *)
(***************************************************************************)
maxDepth == 10

\* the for loop of getSpecRulesDir from iteration depth, standing at
\* currentDir: the directory it returns, None when the loop ends without one
RECURSIVE searchUpward(_, _, _)
searchUpward(fs, currentDir, depth) ==
    IF depth >= maxDepth THEN None
    ELSE LET specRulesPath == pathJoin(currentDir, <<"spec-rules">>)
             baseJsonPath == pathJoin(specRulesPath, <<"base.json">>)
         IN  IF IsSome(readFileSync(fs, baseJsonPath)) THEN Some(specRulesPath)
             ELSE IF parentDir(currentDir) = currentDir THEN None
             ELSE searchUpward(fs, parentDir(currentDir), depth + 1)

\* resolve(__dirname, "../../../../spec-rules")
fallbackDir(dir) == pathJoin(ancestorDir(dir, 4), <<"spec-rules">>)

\* mutant: the directory is searched for before the override is looked at
getSpecRulesDir_searchFirst(cache, env, fs, dir) ==
    IF cache # None THEN [value |-> cache[1], cache |-> cache]
    ELSE LET found == searchUpward(fs, dir, 0)
             value == IF IsSome(found) THEN found[1]
                      ELSE IF IsSome(env) /\ env[1] # <<>> THEN env[1]
                      ELSE fallbackDir(dir)
         IN  [value |-> value, cache |-> Some(value)]

\* getSpecRulesDir(): the directory returned and the cache it leaves
getSpecRulesDir(cache, env, fs, dir) ==
    IF cache # None THEN [value |-> cache[1], cache |-> cache]
    ELSE IF IsSome(env) /\ env[1] # <<>> THEN [value |-> env[1], cache |-> Some(env[1])]
    ELSE LET found == searchUpward(fs, dir, 0)
             value == IF IsSome(found) THEN found[1] ELSE fallbackDir(dir)
         IN  [value |-> value, cache |-> Some(value)]

\* loadRuleFile(filename): the parsed document (None when readFileSync or
\* JSON.parse throws), the directory that getSpecRulesDir returned, whether
\* it came from the cache, and the cache left
loadRuleFile(cache, env, fs, dir, filename) ==
    LET specRulesDir == getSpecRulesDir(cache, env, fs, dir)
        content == readFileSync(fs, pathJoin(specRulesDir.value, filename))
    IN  [doc |-> IF IsSome(content) THEN JSONparse(content[1]) ELSE None,
         resolved |-> [value |-> specRulesDir.value, fromCache |-> cache # None],
         cache |-> specRulesDir.cache]

\* mutant: the keywords are looked for as they are written
matchesPattern_caseSensitive(userPrompt, pattern) ==
    IF ~IsSome(pattern.detectionKeywords) \/ Len(pattern.detectionKeywords[1]) = 0
    THEN FALSE
    ELSE LET lowerPrompt == toLowerCase(userPrompt)
         IN  \E k \in 1..Len(pattern.detectionKeywords[1]) :
                 includes(lowerPrompt, pattern.detectionKeywords[1][k])

matchesPattern(userPrompt, pattern) ==
    IF ~IsSome(pattern.detectionKeywords) \/ Len(pattern.detectionKeywords[1]) = 0
    THEN FALSE
    ELSE LET lowerPrompt == toLowerCase(userPrompt)
         IN  \E k \in 1..Len(pattern.detectionKeywords[1]) :
                 includes(lowerPrompt, toLowerCase(pattern.detectionKeywords[1][k]))

RulesReturned(rules, cache, resolved) ==
    [kind |-> "returned", rules |-> Some(rules), cache |-> cache, resolved |-> resolved]

RulesThrown(cache, resolved) ==
    [kind |-> "thrown", rules |-> None, cache |-> cache, resolved |-> resolved]

\* the try block of loadRules: the patterns it leaves
loadPatterns(authForm, userPrompt) ==
    IF IsSome(authForm.doc) /\ matchesPattern(userPrompt, authForm.doc[1])
    THEN <<authForm.doc[1]>> ELSE <<>>

\* mutant: the pattern file is loaded outside the try block
loadRules_patternRequired(cache, env, fs, dir, opts) ==
    LET base == loadRuleFile(cache, env, fs, dir, <<"base.json">>)
        layout == loadRuleFile(base.cache, env, fs, dir, <<"layout.json">>)
        devices == loadRuleFile(layout.cache, env, fs, dir, <<"devices.json">>)
        visualBaseline == loadRuleFile(devices.cache, env, fs, dir, <<"visual-baseline.json">>)
        afterBaseline == IF opts.visualBaseline THEN visualBaseline.cache ELSE devices.cache
        authForm == loadRuleFile(afterBaseline, env, fs, dir, <<"patterns", "auth-form.json">>)
    IN  IF ~IsSome(base.doc) THEN RulesThrown(base.cache, <<base.resolved>>)
        ELSE IF ~IsSome(layout.doc)
        THEN RulesThrown(layout.cache, <<base.resolved, layout.resolved>>)
        ELSE IF ~IsSome(devices.doc)
        THEN RulesThrown(devices.cache, <<base.resolved, layout.resolved, devices.resolved>>)
        ELSE IF opts.visualBaseline /\ ~IsSome(visualBaseline.doc)
        THEN RulesThrown(visualBaseline.cache,
                 <<base.resolved, layout.resolved, devices.resolved, visualBaseline.resolved>>)
        ELSE IF ~IsSome(authForm.doc)
        THEN RulesThrown(authForm.cache,
                 <<base.resolved, layout.resolved, devices.resolved>>
                 \o (IF opts.visualBaseline THEN <<visualBaseline.resolved>> ELSE <<>>)
                 \o <<authForm.resolved>>)
        ELSE RulesReturned(
                 LoadedRules(base.doc[1], layout.doc[1],
                     IF opts.visualBaseline THEN visualBaseline.doc ELSE None,
                     devices.doc[1][opts.targetLayout],
                     loadPatterns(authForm, opts.userPrompt)),
                 authForm.cache,
                 <<base.resolved, layout.resolved, devices.resolved>>
                 \o (IF opts.visualBaseline THEN <<visualBaseline.resolved>> ELSE <<>>)
                 \o <<authForm.resolved>>)

\* loadRules(options): how the call ends, the cache it leaves and the
\* directories its loadRuleFile calls resolved, in order
loadRules(cache, env, fs, dir, opts) ==
    LET base == loadRuleFile(cache, env, fs, dir, <<"base.json">>)
        layout == loadRuleFile(base.cache, env, fs, dir, <<"layout.json">>)
        devices == loadRuleFile(layout.cache, env, fs, dir, <<"devices.json">>)
        visualBaseline == loadRuleFile(devices.cache, env, fs, dir, <<"visual-baseline.json">>)
        afterBaseline == IF opts.visualBaseline THEN visualBaseline.cache ELSE devices.cache
        authForm == loadRuleFile(afterBaseline, env, fs, dir, <<"patterns", "auth-form.json">>)
    IN  IF ~IsSome(base.doc) THEN RulesThrown(base.cache, <<base.resolved>>)
        ELSE IF ~IsSome(layout.doc)
        THEN RulesThrown(layout.cache, <<base.resolved, layout.resolved>>)
        ELSE IF ~IsSome(devices.doc)
        THEN RulesThrown(devices.cache, <<base.resolved, layout.resolved, devices.resolved>>)
        ELSE IF opts.visualBaseline /\ ~IsSome(visualBaseline.doc)
        THEN RulesThrown(visualBaseline.cache,
                 <<base.resolved, layout.resolved, devices.resolved, visualBaseline.resolved>>)
        ELSE RulesReturned(
                 LoadedRules(base.doc[1], layout.doc[1],
                     IF opts.visualBaseline THEN visualBaseline.doc ELSE None,
                     devices.doc[1][opts.targetLayout],
                     loadPatterns(authForm, opts.userPrompt)),
                 authForm.cache,
                 <<base.resolved, layout.resolved, devices.resolved>>
                 \o (IF opts.visualBaseline THEN <<visualBaseline.resolved>> ELSE <<>>)
                 \o <<authForm.resolved>>)

(***************************************************************************)
(* assembleSystemPrompt (apps/api/src/spec/prompt/assembleSystemPrompt.ts) *)
(* A line is the sequence of its pieces: a literal of the code, a rule     *)
(* text, or a character of an upper-cased name.  The prompt is the lines   *)
(* joined by "\n".                                                         *)
(***************************************************************************)
toUpperCaseChar(c) ==
    CASE c = "a" -> "A" [] c = "b" -> "B" [] c = "c" -> "C" [] c = "d" -> "D"
      [] c = "e" -> "E" [] c = "f" -> "F" [] c = "g" -> "G" [] c = "h" -> "H"
      [] c = "i" -> "I" [] c = "j" -> "J" [] c = "k" -> "K" [] c = "l" -> "L"
      [] c = "m" -> "M" [] c = "n" -> "N" [] c = "o" -> "O" [] c = "p" -> "P"
      [] c = "q" -> "Q" [] c = "r" -> "R" [] c = "s" -> "S" [] c = "t" -> "T"
      [] c = "u" -> "U" [] c = "v" -> "V" [] c = "w" -> "W" [] c = "x" -> "X"
      [] c = "y" -> "Y" [] c = "z" -> "Z" [] OTHER -> c

toUpperCase(s) == [i \in 1..Len(s) |-> toUpperCaseChar(s[i])]

\* `- ${rule}`
Bullet(rule) == <<"- ", rule>>

\* rules.map((rule) => `- ${rule}`)
bullets(rules) == [i \in 1..Len(rules) |-> Bullet(rules[i])]

EmptyLine == <<>>

headerLines ==
    << <<"You are generating DesignSpecs for real application UIs, not raw layout primitives.">>,
       EmptyLine,
       <<"Your goal is to produce layouts that resemble production-ready application screens at a wireframe+ level.">>,
       EmptyLine,
       <<"Generated designs must look like real apps, not like ungrouped containers with text.">>,
       EmptyLine,
       <<"ALWAYS apply the following rules:">>,
       EmptyLine >>

GlobalHeading == <<"=== GLOBAL RULES ===">>

LayoutHeading == <<"=== LAYOUT INTENT RULES ===">>

\* the literal of the code starts with a warning sign
StrictLayoutMarker == <<"STRICT LAYOUT MODE: These rules are MANDATORY:">>

\* `=== DEVICE RULES (${options.targetLayout.toUpperCase()}) ===`
DeviceHeading(targetLayout) ==
    <<"=== DEVICE RULES (">> \o toUpperCase(targetLayout) \o <<") ===">>

VisualBaselineHeading == <<"=== VISUAL BASELINE RULES ===">>

\* `=== PATTERN RULES: ${pattern.name.toUpperCase()} ===`
PatternHeading(name) == <<"=== PATTERN RULES: ">> \o toUpperCase(name) \o <<" ===">>

UxHeading == <<"=== UX PATTERNS ===">>

OutputHeading == <<"=== OUTPUT FORMAT ===">>

\* mutant: the balanced rules are taken whenever they exist
layoutRulesToUse_balancedFirst(opts, layout) ==
    IF IsSome(layout.balancedRules) THEN layout.balancedRules[1]
    ELSE IF opts.uiStrictness = "strict" /\ IsSome(layout.strictRules)
    THEN layout.strictRules[1]
    ELSE layout.rules

\* the choice of const layoutRulesToUse; an array, even an empty one, is truthy
layoutRulesToUse(opts, layout) ==
    IF opts.uiStrictness = "strict" /\ IsSome(layout.strictRules) THEN layout.strictRules[1]
    ELSE IF opts.uiStrictness = "balanced" /\ IsSome(layout.balancedRules)
    THEN layout.balancedRules[1]
    ELSE layout.rules

\* the loop over loadedRules.patterns, from pattern i on
RECURSIVE patternSections(_, _)
patternSections(patterns, i) ==
    IF i > Len(patterns) THEN <<>>
    ELSE <<PatternHeading(patterns[i].name)>> \o bullets(patterns[i].rules) \o <<EmptyLine>>
         \o patternSections(patterns, i + 1)

groupElementsRules ==
    << Bullet("Group related elements in containers"),
       Bullet("Use logical grouping (e.g. form fields together)") >>

formContainerRules ==
    << Bullet("Wrap all form elements in a dedicated form container"),
       Bullet("Form containers must have clear padding and spacing"),
       Bullet("Form card container (the main form wrapper) should have visual styling (background, borderRadius)"),
       Bullet("Inner layout containers (field groups, actions containers) should NOT have visual styling") >>

helperTextRules ==
    << Bullet("Include helper or hint text where appropriate"),
       Bullet("Helper text should be smaller and placed near relevant elements") >>

StandardPractices == Bullet("Follow standard UX practices")

\* const uxPatternRules after the three ifs
uxPatternRules(uxPatterns) ==
    (IF uxPatterns.groupElements THEN groupElementsRules ELSE <<>>)
    \o (IF uxPatterns.formContainer THEN formContainerRules ELSE <<>>)
    \o (IF uxPatterns.helperText THEN helperTextRules ELSE <<>>)

\* what follows the "=== UX PATTERNS ===" line
uxSection(uxPatterns) ==
    IF Len(uxPatternRules(uxPatterns)) > 0 THEN uxPatternRules(uxPatterns)
    ELSE <<StandardPractices>>

outputFormatLines ==
    << OutputHeading,
       <<"Your output must be a valid DesignSpec JSON only.">>,
       <<"No explanations.">>,
       <<"No markdown.">> >>

\* mutant: the visual baseline rules are pushed after the pattern sections
sectionsOf_baselineLast(opts, loadedRules) ==
    headerLines
    \o <<GlobalHeading>> \o bullets(loadedRules.base.rules) \o <<EmptyLine>>
    \o <<LayoutHeading>>
    \o (IF opts.strictLayout THEN <<StrictLayoutMarker>> ELSE <<>>)
    \o bullets(layoutRulesToUse(opts, loadedRules.layout)) \o <<EmptyLine>>
    \o <<DeviceHeading(opts.targetLayout)>> \o bullets(loadedRules.device.rules)
    \o <<EmptyLine>>
    \o (IF Len(loadedRules.patterns) > 0 THEN patternSections(loadedRules.patterns, 1)
        ELSE <<>>)
    \o (IF IsSome(loadedRules.visualBaseline)
        THEN <<VisualBaselineHeading>> \o bullets(loadedRules.visualBaseline[1].rules)
             \o <<EmptyLine>>
        ELSE <<>>)
    \o <<UxHeading>> \o uxSection(opts.uxPatterns) \o <<EmptyLine>>
    \o outputFormatLines

\* const sections when the function returns
sectionsOf(opts, loadedRules) ==
    headerLines
    \o <<GlobalHeading>> \o bullets(loadedRules.base.rules) \o <<EmptyLine>>
    \o <<LayoutHeading>>
    \o (IF opts.strictLayout THEN <<StrictLayoutMarker>> ELSE <<>>)
    \o bullets(layoutRulesToUse(opts, loadedRules.layout)) \o <<EmptyLine>>
    \o <<DeviceHeading(opts.targetLayout)>> \o bullets(loadedRules.device.rules)
    \o <<EmptyLine>>
    \o (IF IsSome(loadedRules.visualBaseline)
        THEN <<VisualBaselineHeading>> \o bullets(loadedRules.visualBaseline[1].rules)
             \o <<EmptyLine>>
        ELSE <<>>)
    \o (IF Len(loadedRules.patterns) > 0 THEN patternSections(loadedRules.patterns, 1)
        ELSE <<>>)
    \o <<UxHeading>> \o uxSection(opts.uxPatterns) \o <<EmptyLine>>
    \o outputFormatLines

PromptReturned(text) == [kind |-> "returned", text |-> Some(text)]

PromptThrown == [kind |-> "thrown", text |-> None]

\* assembleSystemPrompt(options), given how its loadRules call ended
assembleSystemPrompt(opts, rulesOutcome) ==
    IF rulesOutcome.kind = "thrown" THEN PromptThrown
    ELSE PromptReturned(join(sectionsOf(opts, rulesOutcome.rules[1]), <<"\n">>))

(***************************************************************************)
(* Inputs of the rule loader: rule documents, file systems, deployments    *)
(* and the options of a request                                            *)
(***************************************************************************)
StrMobile == <<"m", "o", "b", "i", "l", "e">>

StrTablet == <<"t", "a", "b", "l", "e", "t">>

StrDesktop == <<"d", "e", "s", "k", "t", "o", "p">>

StrAuthForm == <<"a", "u", "t", "h", "-", "f", "o", "r", "m">>

StrLogin == <<"l", "o", "g", "i", "n">>

StrSignup == <<"s", "i", "g", "n", "u", "p">>

StrAuth == <<"a", "u", "t", "h">>

StrLoginCapital == <<"L", "o", "g", "i", "n">>

PromptLoginForm == <<"C", "r", "e", "a", "t", "e", " ", "a", " ", "l", "o", "g", "i", "n", " ", "f", "o", "r", "m">>

PromptSignUp == <<"S", "I", "G", "N", "U", "P", " ", "p", "a", "g", "e">>

PromptDashboard == <<"C", "r", "e", "a", "t", "e", " ", "a", " ", "d", "a", "s", "h", "b", "o", "a", "r", "d">>

PromptTargetLayouts == {StrMobile, StrTablet, StrDesktop}

UserPrompts == {PromptLoginForm, PromptSignUp, PromptDashboard}

PromptOptions ==
    [userPrompt : UserPrompts, targetLayout : PromptTargetLayouts,
     uiStrictness : {"strict", "balanced"}, visualBaseline : BOOLEAN,
     strictLayout : BOOLEAN,
     uxPatterns : [groupElements : BOOLEAN, formContainer : BOOLEAN, helperText : BOOLEAN]]

BaseDoc == BaseRule("base", <<"Base rule 1", "Base rule 2">>)

OtherBaseDoc == BaseRule("base", <<"Other base rule">>)

VisualBaselineDoc == BaseRule("visual-baseline", <<"Visual baseline rule 1">>)

StrictRuleLists == {None, Some(<<>>), Some(<<"Strict rule 1", "Strict rule 2">>)}

BalancedRuleLists == {None, Some(<<"Balanced rule 1">>)}

LayoutDocs ==
    {LayoutRule("layout", <<"Layout rule 1">>, s, b) :
        s \in StrictRuleLists, b \in BalancedRuleLists}

FullLayoutDoc ==
    LayoutRule("layout", <<"Layout rule 1">>,
               Some(<<"Strict rule 1", "Strict rule 2">>), Some(<<"Balanced rule 1">>))

DevicesDoc ==
    (StrMobile :> DeviceRule("~375-400px", "800px", <<"Mobile rule 1">>))
    @@ (StrTablet :> DeviceRule("~768px", "900px", <<"Tablet rule 1">>))
    @@ (StrDesktop :> DeviceRule("~1200px", "900px", <<"Desktop rule 1", "Desktop rule 2">>))

KeywordLists ==
    {None, Some(<<>>), Some(<<StrLogin, StrSignup, StrAuth>>), Some(<<StrLoginCapital>>),
     Some(<<StrAuth, <<>> >>)}

PatternDocs == {PatternRule(StrAuthForm, k, <<"Auth rule 1", "Auth rule 2">>) : k \in KeywordLists}

AuthFormDoc == PatternRule(StrAuthForm, Some(<<StrLogin, StrSignup, StrAuth>>), <<"Auth rule 1", "Auth rule 2">>)

\* the pattern file: absent, not JSON, or a pattern document
AuthFormTexts == {None, Some(BrokenText)} \cup {Some(JsonText(p)) : p \in PatternDocs}

RuleFileNames ==
    {<<"base.json">>, <<"layout.json">>, <<"devices.json">>, <<"visual-baseline.json">>,
     <<"patterns", "auth-form.json">>}

\* the files of a rules directory, by name
RuleTexts(base, layout, authForm) ==
    LET always == (<<"base.json">> :> JsonText(base))
                  @@ (<<"layout.json">> :> JsonText(layout))
                  @@ (<<"devices.json">> :> JsonText(DevicesDoc))
                  @@ (<<"visual-baseline.json">> :> JsonText(VisualBaselineDoc))
    IN  IF IsSome(authForm) THEN always @@ (<<"patterns", "auth-form.json">> :> authForm[1])
        ELSE always

StandardTexts == RuleTexts(BaseDoc, FullLayoutDoc, Some(JsonText(AuthFormDoc)))

Without(texts, name) == [n \in (DOMAIN texts) \ {name} |-> texts[n]]

Broken(texts, name) == [texts EXCEPT ![name] = BrokenText]

RuleTextSets ==
    {RuleTexts(BaseDoc, l, Some(JsonText(AuthFormDoc))) : l \in LayoutDocs}
    \cup {RuleTexts(BaseDoc, FullLayoutDoc, a) : a \in AuthFormTexts}
    \cup {Without(StandardTexts, n) : n \in RuleFileNames}
    \cup {Broken(StandardTexts, n) : n \in RuleFileNames}

\* the file system that holds the texts in directory dir
FilesIn(dir, texts) ==
    [p \in {pathJoin(dir, n) : n \in DOMAIN texts} |->
        texts[SubSeq(p, Len(dir) + 1, Len(p))]]

Deployment(env, dir, fs) == [env |-> env, dirname |-> dir, files |-> fs]

\* /app/apps/api/dist/spec/prompt/, the place of loadRules.js in the image
DockerDirname == <<"/", "app", "apps", "api", "dist", "spec", "prompt">>

DockerRulesDir == <<"/", "app", "spec-rules">>

\* a place eleven directories below the root
DeepDirname == <<"/", "srv", "a", "b", "c", "d", "e", "f", "g", "h", "i", "j">>

ShallowDirname == <<"/", "x">>

MockDir == <<"/", "mock", "spec-rules">>

OtherTexts == RuleTexts(OtherBaseDoc, FullLayoutDoc, None)

Deployments ==
    \* the override names the directory
    {Deployment(Some(MockDir), DockerDirname, FilesIn(MockDir, t)) : t \in RuleTextSets}
    \* no override, or an empty one: the directory is searched for
    \cup {Deployment(e, DockerDirname, FilesIn(DockerRulesDir, t)) :
             e \in {None, Some(<<>>)},
             t \in {StandardTexts, Broken(StandardTexts, <<"base.json">>),
                    Without(StandardTexts, <<"layout.json">>)}}
    \* an override and a directory that the search would find
    \cup {Deployment(Some(MockDir), DockerDirname,
                     FilesIn(MockDir, StandardTexts) @@ FilesIn(DockerRulesDir, OtherTexts))}
    \* two directories on the way up
    \cup {Deployment(None, DockerDirname,
                     FilesIn(<<"/", "app", "apps", "api", "spec-rules">>, StandardTexts)
                     @@ FilesIn(DockerRulesDir, OtherTexts))}
    \* nine and ten levels above __dirname, and nowhere
    \cup {Deployment(None, DeepDirname, FilesIn(<<"/", "srv", "a", "spec-rules">>, StandardTexts)),
          Deployment(None, DeepDirname, FilesIn(<<"/", "srv", "spec-rules">>, StandardTexts)),
          Deployment(None, ShallowDirname, <<>>),
          Deployment(None, ShallowDirname, FilesIn(<<"/", "spec-rules">>, StandardTexts))}

(***************************************************************************)
(* SpecPrompt: requests, one after the other, have their system prompt     *)
(* assembled; the cache of the rules directory may be reset at any time.   *)
(***************************************************************************)
InitPrompt ==
    /\ \E d \in Deployments :
        /\ specRulesDirEnv = d.env
        /\ dirname = d.dirname
        /\ files = d.files
    /\ cachedSpecRulesDir = None
    /\ ppc = "idle"
    /\ options = None
    /\ loaded = None
    /\ prompt = None
    /\ reads = <<>>
    /\ HashOff
    /\ RetryOff
    /\ GenOff

\* a request arrives with its options
ReceiveRequest ==
    /\ ppc = "idle"
    /\ \E o \in PromptOptions : options' = Some(o)
    /\ ppc' = "received"
    /\ UNCHANGED <<specRulesDirEnv, dirname, files, cachedSpecRulesDir, loaded, prompt, reads>>
    /\ UNCHANGED <<varsRetry, varsGen, varsHash>>

\* assembleSystemPrompt(options), loadRules included
AssembleSystemPrompt ==
    /\ ppc = "received"
    /\ LET loadedRules == loadRules(cachedSpecRulesDir, specRulesDirEnv, files, dirname,
                                    options[1])
       IN  /\ loaded' = Some(loadedRules)
           /\ cachedSpecRulesDir' = loadedRules.cache
           /\ prompt' = Some(assembleSystemPrompt(options[1], loadedRules))
    /\ ppc' = "done"
    /\ UNCHANGED <<specRulesDirEnv, dirname, files, options, reads>>
    /\ UNCHANGED <<varsRetry, varsGen, varsHash>>

\* the caller has taken the prompt (or the error); the next request may come
PromptTaken ==
    /\ ppc = "done"
    /\ ppc' = "idle"
    /\ options' = None
    /\ loaded' = None
    /\ prompt' = None
    /\ UNCHANGED <<specRulesDirEnv, dirname, files, cachedSpecRulesDir, reads>>
    /\ UNCHANGED <<varsRetry, varsGen, varsHash>>

\* resetSpecRulesDirCache()
ResetSpecRulesDirCache ==
    /\ cachedSpecRulesDir' = None
    /\ UNCHANGED <<specRulesDirEnv, dirname, files, ppc, options, loaded, prompt, reads>>
    /\ UNCHANGED <<varsRetry, varsGen, varsHash>>

NextPrompt ==
    \/ ReceiveRequest
    \/ AssembleSystemPrompt
    \/ PromptTaken
    \/ ResetSpecRulesDirCache

SpecPrompt == InitPrompt /\ [][NextPrompt]_vars

(***************************************************************************)
(* Properties of loadRules and assembleSystemPrompt                        *)
(***************************************************************************)
\* the text holds the word somewhere, letters compared without their case
ContainsIgnoringCase(text, word) ==
    \E i \in 1..(Len(text) - Len(word) + 1) :
        \A j \in 1..Len(word) : toLowerCaseChar(text[i + j - 1]) = toLowerCaseChar(word[j])

RulesLoaded == ppc = "done" /\ loaded[1].kind = "returned"

RulesFailed == ppc = "done" /\ loaded[1].kind = "thrown"

\* the directory the call read its files from
RulesDirUsed == loaded[1].resolved[1].value

\* what JSON.parse makes of a file of that directory: None when the file is
\* missing or is not JSON
FileRead(name) ==
    LET path == RulesDirUsed \o name
    IN  IF path \in DOMAIN files /\ files[path].wellFormed THEN files[path].denotes ELSE None

PatternFileName == <<"patterns", "auth-form.json">>

\* one of the pattern's detection keywords is in the prompt, in any case
KeywordInPrompt(pattern, userPrompt) ==
    /\ IsSome(pattern.detectionKeywords)
    /\ \E k \in 1..Len(pattern.detectionKeywords[1]) :
           ContainsIgnoringCase(userPrompt, pattern.detectionKeywords[1][k])

\* C21: loadRules includes a pattern rule set iff the user prompt, compared
\* case-insensitively, contains at least one of the pattern's detection
\* keywords as a substring; a pattern with a missing or an empty keyword list
\* is never included, whatever the prompt.
C21_PatternIncludedIffKeywordInPrompt ==
    (RulesLoaded /\ IsSome(FileRead(PatternFileName)))
    => LET pattern == FileRead(PatternFileName)[1]
           patterns == loaded[1].rules[1].patterns
       IN  /\ patterns \in {<<>>, <<pattern>>}
           /\ (patterns = <<pattern>>) <=> KeywordInPrompt(pattern, options[1].userPrompt)
           /\ (~IsSome(pattern.detectionKeywords) \/ pattern.detectionKeywords[1] = <<>>)
              => patterns = <<>>

\* the keyword "Login" of the file is found in "Create a login form"
C21_Witness ==
    /\ RulesLoaded
    /\ IsSome(FileRead(PatternFileName))
    /\ FileRead(PatternFileName)[1].detectionKeywords = Some(<<StrLoginCapital>>)
    /\ options[1].userPrompt = PromptLoginForm
    /\ Len(loaded[1].rules[1].patterns) = 1

\* JSON.parse accepts the file of that name in the rules directory
Readable(name) == IsSome(FileRead(name))

RequiredFilesReadable ==
    Readable(<<"base.json">>) /\ Readable(<<"layout.json">>) /\ Readable(<<"devices.json">>)

\* C22: a missing or unreadable pattern file never aborts loadRules: when
\* every other file the call reads is readable, the call returns with base,
\* layout and device as the files give them and with no pattern; a missing
\* or unreadable base, layout or devices file makes the call throw, and it
\* returns no rules.
C22_OnlyRequiredFilesAbort ==
    ppc = "done"
    => /\ (/\ ~Readable(PatternFileName)
           /\ RequiredFilesReadable
           /\ options[1].visualBaseline => Readable(<<"visual-baseline.json">>))
          => /\ loaded[1].kind = "returned"
             /\ loaded[1].rules[1].base = FileRead(<<"base.json">>)[1]
             /\ loaded[1].rules[1].layout = FileRead(<<"layout.json">>)[1]
             /\ loaded[1].rules[1].device
                    = FileRead(<<"devices.json">>)[1][options[1].targetLayout]
             /\ loaded[1].rules[1].patterns = <<>>
       /\ ~RequiredFilesReadable
          => /\ loaded[1].kind = "thrown"
             /\ loaded[1].rules = None
             /\ prompt[1].kind = "thrown"

\* the pattern file is missing, the prompt names a keyword, the call returns
C22_Witness ==
    /\ RulesLoaded
    /\ (RulesDirUsed \o PatternFileName) \notin DOMAIN files
    /\ options[1].userPrompt = PromptLoginForm
    /\ options[1].visualBaseline
    /\ loaded[1].rules[1].patterns = <<>>
    /\ loaded[1].rules[1].device.rules = <<"Mobile rule 1">>

PromptReady == ppc = "done" /\ prompt[1].kind = "returned"

\* the lines of the prompt a call returned
PromptLines == Split(prompt[1].text[1], "\n")

IsHeadingLine(line) == Len(line) > 0 /\ line[1] \in
    {"=== GLOBAL RULES ===", "=== LAYOUT INTENT RULES ===", "=== DEVICE RULES (",
     "=== VISUAL BASELINE RULES ===", "=== PATTERN RULES: ", "=== UX PATTERNS ===",
     "=== OUTPUT FORMAT ==="}

IsBulletLine(line) == Len(line) = 2 /\ line[1] = "- "

\* the lines under the k-th line, up to the next heading line
SectionUnder(lines, k) ==
    LET later == {j \in (k + 1)..Len(lines) : IsHeadingLine(lines[j])}
        end == IF later = {} THEN Len(lines) + 1
               ELSE CHOOSE j \in later : \A i \in later : j <= i
    IN  SubSeq(lines, k + 1, end - 1)

\* the rule texts of the bullet lines among the lines, in order
BulletTexts(lines) ==
    LET bulletLines == SelectSeq(lines, IsBulletLine)
    IN  [i \in 1..Len(bulletLines) |-> bulletLines[i][2]]

\* the rule texts under the one line that reads as the heading
BulletsUnder(lines, heading) ==
    LET at == {k \in 1..Len(lines) : lines[k] = heading}
    IN  IF Cardinality(at) # 1 THEN <<"no such section">>
        ELSE BulletTexts(SectionUnder(lines, CHOOSE k \in at : TRUE))

Range(seq) == {seq[i] : i \in 1..Len(seq)}

\* C23: the bullets of the layout-intent section are those of one list:
\* strictRules when uiStrictness is strict and strictRules exists, otherwise
\* balancedRules when uiStrictness is balanced and balancedRules exists,
\* otherwise the default rules; with strict and both variants present the
\* prompt holds every strict-rule line and no balanced-rule or default-rule
\* line.
C23_LayoutRulesByStrictness ==
    PromptReady
    => LET layout == loaded[1].rules[1].layout
           strict == options[1].uiStrictness = "strict"
           balanced == options[1].uiStrictness = "balanced"
           lines == PromptLines
           section == BulletsUnder(lines, <<"=== LAYOUT INTENT RULES ===">>)
           AllBullets == Range(BulletTexts(lines))
       IN  /\ (strict /\ IsSome(layout.strictRules)) => section = layout.strictRules[1]
           /\ (strict /\ ~IsSome(layout.strictRules)) => section = layout.rules
           /\ (balanced /\ IsSome(layout.balancedRules)) => section = layout.balancedRules[1]
           /\ (balanced /\ ~IsSome(layout.balancedRules)) => section = layout.rules
           /\ (strict /\ IsSome(layout.strictRules) /\ IsSome(layout.balancedRules))
              => /\ Range(layout.strictRules[1]) \subseteq AllBullets
                 /\ Range(layout.balancedRules[1]) \cap AllBullets = {}
                 /\ Range(layout.rules) \cap AllBullets = {}

\* strict, with strict and balanced rules in layout.json and the mandatory
\* marker in the section
C23_Witness ==
    /\ PromptReady
    /\ options[1].uiStrictness = "strict"
    /\ options[1].strictLayout
    /\ loaded[1].rules[1].layout.balancedRules = Some(<<"Balanced rule 1">>)
    /\ BulletsUnder(PromptLines, <<"=== LAYOUT INTENT RULES ===">>)
           = <<"Strict rule 1", "Strict rule 2">>

\* the heading of the device section, as it reads for each layout
DeviceHeadingOf(targetLayout) ==
    CASE targetLayout = StrMobile -> <<"=== DEVICE RULES (", "M", "O", "B", "I", "L", "E", ") ===">>
      [] targetLayout = StrTablet -> <<"=== DEVICE RULES (", "T", "A", "B", "L", "E", "T", ") ===">>
      [] targetLayout = StrDesktop ->
             <<"=== DEVICE RULES (", "D", "E", "S", "K", "T", "O", "P", ") ===">>

AuthFormHeading == <<"=== PATTERN RULES: ", "A", "U", "T", "H", "-", "F", "O", "R", "M", " ===">>

UxRuleTexts(uxPatterns) ==
    (IF uxPatterns.groupElements
     THEN <<"Group related elements in containers",
            "Use logical grouping (e.g. form fields together)">> ELSE <<>>)
    \o (IF uxPatterns.formContainer
        THEN <<"Wrap all form elements in a dedicated form container",
               "Form containers must have clear padding and spacing",
               "Form card container (the main form wrapper) should have visual styling (background, borderRadius)",
               "Inner layout containers (field groups, actions containers) should NOT have visual styling">>
        ELSE <<>>)
    \o (IF uxPatterns.helperText
        THEN <<"Include helper or hint text where appropriate",
               "Helper text should be smaller and placed near relevant elements">> ELSE <<>>)

\* C24: the prompt holds its sections in this order and omits none that
\* applies: header, global rules, layout-intent rules, device rules,
\* visual-baseline rules (iff a visual baseline was loaded), one section per
\* matched pattern in loaded order, UX-pattern rules (the fallback line iff
\* none of the three flags is set), output-format footer.
C24_SectionsInOrder ==
    PromptReady
    => LET rules == loaded[1].rules[1]
           opts == options[1]
           lines == PromptLines
           noFlag == ~opts.uxPatterns.groupElements /\ ~opts.uxPatterns.formContainer
                     /\ ~opts.uxPatterns.helperText
           uxBullets == BulletsUnder(lines, <<"=== UX PATTERNS ===">>)
       IN  /\ SubSeq(lines, 1, 7) =
                << <<"You are generating DesignSpecs for real application UIs, not raw layout primitives.">>,
                   <<>>,
                   <<"Your goal is to produce layouts that resemble production-ready application screens at a wireframe+ level.">>,
                   <<>>,
                   <<"Generated designs must look like real apps, not like ungrouped containers with text.">>,
                   <<>>,
                   <<"ALWAYS apply the following rules:">> >>
           /\ SelectSeq(lines, IsHeadingLine) =
                << <<"=== GLOBAL RULES ===">>, <<"=== LAYOUT INTENT RULES ===">>,
                   DeviceHeadingOf(opts.targetLayout) >>
                \o (IF IsSome(rules.visualBaseline) THEN << <<"=== VISUAL BASELINE RULES ===">> >>
                    ELSE <<>>)
                \o (IF rules.patterns # <<>> THEN <<AuthFormHeading>> ELSE <<>>)
                \o << <<"=== UX PATTERNS ===">>, <<"=== OUTPUT FORMAT ===">> >>
           /\ IsSome(rules.visualBaseline) <=> opts.visualBaseline
           /\ BulletsUnder(lines, <<"=== GLOBAL RULES ===">>) = rules.base.rules
           /\ BulletsUnder(lines, DeviceHeadingOf(opts.targetLayout)) = rules.device.rules
           /\ IsSome(rules.visualBaseline)
              => BulletsUnder(lines, <<"=== VISUAL BASELINE RULES ===">>)
                     = rules.visualBaseline[1].rules
           /\ Len(rules.patterns) <= 1
           /\ Len(rules.patterns) = 1
              => BulletsUnder(lines, AuthFormHeading) = rules.patterns[1].rules
           /\ uxBullets = (IF noFlag THEN <<"Follow standard UX practices">>
                           ELSE UxRuleTexts(opts.uxPatterns))
           /\ noFlag <=> "Follow standard UX practices" \in Range(BulletTexts(lines))
           /\ SubSeq(lines, Len(lines) - 3, Len(lines)) =
                << <<"=== OUTPUT FORMAT ===">>,
                   <<"Your output must be a valid DesignSpec JSON only.">>,
                   <<"No explanations.">>, <<"No markdown.">> >>

\* a prompt with a visual baseline section, a pattern section and two of
\* the three UX flags
C24_Witness ==
    /\ PromptReady
    /\ IsSome(loaded[1].rules[1].visualBaseline)
    /\ Len(loaded[1].rules[1].patterns) = 1
    /\ options[1].targetLayout = StrDesktop
    /\ options[1].uxPatterns.groupElements
    /\ ~options[1].uxPatterns.formContainer
    /\ options[1].uxPatterns.helperText
    /\ Len(PromptLines) = 38

(***************************************************************************)
(* SpecRulesDir: several requests call loadRules, in any order, and the    *)
(* cache of the rules directory is reset at any time in between.  reads    *)
(* keeps, for each request, what getSpecRulesDir returned to each of its   *)
(* loadRuleFile calls.                                                     *)
(***************************************************************************)
Requests == 1..MaxRequests

InitRulesDir ==
    /\ \E d \in Deployments :
        /\ specRulesDirEnv = d.env
        /\ dirname = d.dirname
        /\ files = d.files
    /\ cachedSpecRulesDir = None
    /\ ppc = "off"
    /\ options = None
    /\ loaded = None
    /\ prompt = None
    /\ reads = [r \in Requests |-> None]
    /\ HashOff
    /\ RetryOff
    /\ GenOff

\* loadRules(options) of request r
LoadRules(r) ==
    /\ reads[r] = None
    /\ \E o \in PromptOptions :
        /\ o.userPrompt = PromptLoginForm /\ o.targetLayout = StrMobile
        /\ o.uiStrictness = "strict" /\ ~o.strictLayout
        /\ ~o.uxPatterns.groupElements /\ ~o.uxPatterns.formContainer
        /\ ~o.uxPatterns.helperText
        /\ LET loadedRules == loadRules(cachedSpecRulesDir, specRulesDirEnv, files,
                                        dirname, o)
           IN  /\ reads' = [reads EXCEPT ![r] = Some(loadedRules.resolved)]
               /\ cachedSpecRulesDir' = loadedRules.cache
    /\ UNCHANGED <<specRulesDirEnv, dirname, files, ppc, options, loaded, prompt>>
    /\ UNCHANGED <<varsRetry, varsGen, varsHash>>

NextRulesDir ==
    \/ \E r \in Requests : LoadRules(r)
    \/ ResetSpecRulesDirCache

SpecRulesDir == InitRulesDir /\ [][NextRulesDir]_vars

\* the directory n levels above dir
Above(dir, n) == SubSeq(dir, 1, IF Len(dir) - n < 1 THEN 1 ELSE Len(dir) - n)

\* the directory the search finds: spec-rules of the nearest of the ten
\* directories from __dirname upward that holds spec-rules/base.json, and
\* spec-rules four levels up when there is none
DiscoveredDir ==
    LET levels == {n \in 0..9 :
                      (Above(dirname, n) \o <<"spec-rules", "base.json">>) \in DOMAIN files}
    IN  IF levels = {} THEN Above(dirname, 4) \o <<"spec-rules">>
        ELSE Above(dirname, CHOOSE n \in levels : \A k \in levels : n <= k) \o <<"spec-rules">>

\* the directory of the configuration: the override when SPEC_RULES_DIR is
\* set to a non-empty value, the discovered directory otherwise
ConfiguredDir ==
    IF specRulesDirEnv # None /\ specRulesDirEnv[1] # <<>> THEN specRulesDirEnv[1]
    ELSE DiscoveredDir

\* C25: under a fixed configuration, for every interleaving of requests and
\* cache resets, each resolution of the rules directory yields the same
\* value: the override SPEC_RULES_DIR when it is set, the discovered
\* directory otherwise; populating the cache again changes nothing.
C25_EveryResolutionYieldsTheConfiguredDir ==
    \A r \in DOMAIN reads :
        reads[r] # None
        => \A i \in 1..Len(reads[r][1]) : reads[r][1][i].value = ConfiguredDir

\* without an override, two requests have each populated the cache by a
\* search (a reset came in between) and a third one read it from the cache
C25_Witness ==
    /\ DOMAIN reads = Requests
    /\ specRulesDirEnv = None
    /\ dirname = DeepDirname
    /\ \E r1, r2, r3 \in Requests :
        /\ r1 # r2
        /\ reads[r1] # None /\ ~reads[r1][1][1].fromCache
        /\ reads[r2] # None /\ ~reads[r2][1][1].fromCache
        /\ reads[r3] # None /\ reads[r3][1][1].fromCache
        /\ Len(reads[r3][1]) = 5
        /\ reads[r3][1][5].value = <<"/", "srv", "a", "spec-rules">>

(***************************************************************************)
(* computeHash, computeObjectHash (apps/api/src/utils)                      *)
(* An object is the sequence of its properties in the order in which they  *)
(* were inserted.  JSON.stringify writes the properties in the order of    *)
(* the object's own keys: the array-index keys in ascending order, then    *)
(* the other keys in insertion order.                                      *)
(***************************************************************************)
StringKey(text) == [isIndex |-> FALSE, index |-> 0, text |-> text]

IndexKey(n) == [isIndex |-> TRUE, index |-> n, text |-> ToString(n)]

NumberValue(n) == [type |-> "number", number |-> n, string |-> ""]

StringValue(str) == [type |-> "string", number |-> 0, string |-> str]

Property(key, value) == [key |-> key, value |-> value]

\* the properties with array-index keys, in ascending order of the index
RECURSIVE indexProperties(_)
indexProperties(object) ==
    LET indexed == {i \in 1..Len(object) : object[i].key.isIndex}
    IN  IF indexed = {} THEN <<>>
        ELSE LET least == CHOOSE i \in indexed :
                              \A j \in indexed : object[i].key.index <= object[j].key.index
             IN  <<object[least]>>
                 \o indexProperties([k \in 1..(Len(object) - 1) |->
                                        IF k < least THEN object[k] ELSE object[k + 1]])

HasStringKey(property) == ~property.key.isIndex

\* the own enumerable properties in the order JSON.stringify visits them
ownProperties(object) == indexProperties(object) \o SelectSeq(object, HasStringKey)

\* JSON.stringify of a number or of a string without characters to escape
stringifyValue(value) ==
    IF value.type = "number" THEN <<ToString(value.number)>>
    ELSE <<"\"", value.string, "\"">>

\* "key":value
stringifyProperty(property) ==
    <<"\"", property.key.text, "\"", ":">> \o stringifyValue(property.value)

\* JSON.stringify(obj) of a plain object: the pieces of the text
JSONstringify(object) ==
    LET properties == ownProperties(object)
    IN  <<"{">>
        \o join([i \in 1..Len(properties) |-> stringifyProperty(properties[i])], <<",">>)
        \o <<"}">>

\* createHash("sha256").update(input, "utf8").digest("hex"): the digest is
\* kept as the digest of its input; two digests are equal exactly when the
\* inputs are (SHA-256 without collisions)
computeHash(input) == [algorithm |-> "sha256", digestOf |-> input]

computeObjectHash(object) ==
    LET jsonString == JSONstringify(object)
    IN  computeHash(jsonString)

\* ---- inputs ----
Keys == {StringKey("a"), StringKey("b"), IndexKey(1), IndexKey(2)}

PropertyValues == {NumberValue(1), NumberValue(2), StringValue("test")}

\* the objects with n properties, in every insertion order
RECURSIVE ObjectsOfSize(_)
ObjectsOfSize(n) ==
    IF n = 0 THEN {<<>>}
    ELSE {Append(o, Property(k, v)) :
             o \in ObjectsOfSize(n - 1), k \in Keys, v \in PropertyValues}

HasDistinctKeys(object) ==
    \A i, j \in 1..Len(object) : object[i].key = object[j].key => i = j

Objects == UNION {{o \in ObjectsOfSize(n) : HasDistinctKeys(o)} : n \in 0..MaxKeys}

\* the object whose properties are those of object, inserted in the order p
Reinserted(object, p) == [i \in 1..Len(object) |-> object[p[i]]]

Orders(n) == {p \in [1..n -> 1..n] : \A i, j \in 1..n : p[i] = p[j] => i = j}

(***************************************************************************)
(* SpecHash: an object, and an object with the same properties inserted in *)
(* another order, are hashed; the first one twice.                         *)
(***************************************************************************)
InitHash ==
    /\ hpc = "idle"
    /\ obj \in Objects
    /\ \E p \in Orders(Len(obj)) : reinserted = Reinserted(obj, p)
    /\ hashes = [first |-> None, again |-> None, reinserted |-> None]
    /\ RulesOff
    /\ RetryOff
    /\ GenOff

\* computeObjectHash(obj)
HashObject ==
    /\ hpc = "idle"
    /\ hashes.first = None
    /\ hashes' = [hashes EXCEPT !.first = Some(computeObjectHash(obj))]
    /\ UNCHANGED <<hpc, obj, reinserted>>
    /\ UNCHANGED <<varsRetry, varsGen, varsRules>>

\* computeObjectHash(obj), once more
HashObjectAgain ==
    /\ hpc = "idle"
    /\ hashes.first # None
    /\ hashes.again = None
    /\ hashes' = [hashes EXCEPT !.again = Some(computeObjectHash(obj))]
    /\ UNCHANGED <<hpc, obj, reinserted>>
    /\ UNCHANGED <<varsRetry, varsGen, varsRules>>

\* computeObjectHash(reinserted)
HashReinserted ==
    /\ hpc = "idle"
    /\ hashes.reinserted = None
    /\ hashes' = [hashes EXCEPT !.reinserted = Some(computeObjectHash(reinserted))]
    /\ UNCHANGED <<hpc, obj, reinserted>>
    /\ UNCHANGED <<varsRetry, varsGen, varsRules>>

NextHash ==
    \/ HashObject
    \/ HashObjectAgain
    \/ HashReinserted

SpecHash == InitHash /\ [][NextHash]_vars

\* the two objects hold the same key/value pairs
SamePairs(o1, o2) == Range(o1) = Range(o2)

\* C26: computeObjectHash returns the same hash for two objects that hold
\* the same key/value pairs, whatever the order in which their keys were
\* inserted, and the same hash for repeated calls on the same object.
C26_HashIgnoresInsertionOrder ==
    /\ (hashes.first # None /\ hashes.reinserted # None /\ SamePairs(obj, reinserted))
       => hashes.first = hashes.reinserted
    /\ (hashes.first # None /\ hashes.again # None) => hashes.first = hashes.again

(***************************************************************************)
(* Properties of the repair passes followed by the classification          *)
(***************************************************************************)
\* a container with no background, no borderRadius and no border
Unstyled(node) == ~HasStyleSet(node)

\* C27 (as claimed): in a non-dry-run generation a container that carries no
\* background, no borderRadius and no border in the validated backend
\* output is never named in the visual-usage warnings of that request,
\* whatever its padding and children.
C27_UnstyledNeverWarned ==
    (IsReturned /\ ~dryRun) => NeverWarned(Unstyled, Document, warnings)

\* node by node, at every depth: the same type, and the same layout, gap,
\* padding, label and fontSize
RECURSIVE SameShape(_, _)
SameShape(before, after) ==
    /\ Len(after) = Len(before)
    /\ \A i \in 1..Len(before) :
        LET b == before[i]
            a == after[i]
        IN  /\ a.type = b.type
            /\ CASE b.type = "text" -> a.fontSize = b.fontSize
                 [] b.type = "button" -> a.label = b.label
                 [] b.type = "container" ->
                        /\ a.layout = b.layout
                        /\ a.gap = b.gap
                        /\ a.padding = b.padding
                        /\ SameShape(b.children, a.children)

\* C28: the repair passes preserve schema validity and tree shape: for
\* every schema-valid spec and every target layout, the result of
\* ensureNonEmptyTextContent followed by applyVisualDefaults is accepted by
\* designSpecSchema and has the same nodes in the same order with the same
\* type, layout, gap, padding, label and fontSize at every position; so it
\* is for the spec a call returns.
C28_RepairKeepsValidityAndShape ==
    /\ (HasDocument /\ designSpecSchema(Document))
       => \A targetLayout \in TargetLayouts :
            LET repaired == applyVisualDefaults(ensureNonEmptyTextContent(Document),
                                                targetLayout)
            IN  /\ designSpecSchema(repaired)
                /\ SameShape(Document.nodes, repaired.nodes)
    /\ (IsReturned /\ ~dryRun)
       => /\ designSpecSchema(ReturnedSpec)
          /\ SameShape(Document.nodes, ReturnedSpec.nodes)

\* a container in a container around a blank text: both passes changed the
\* tree that was returned
C28_Witness ==
    /\ IsReturned
    /\ ~dryRun
    /\ Len(Document.nodes) = 2
    /\ Document.nodes[1].type = "container"
    /\ Document.nodes[1].children[1].type = "container"
    /\ Document.nodes[1].children[1].children = <<TextNode(<<" ">>, None, None)>>
    /\ Document.nodes[1].background = None
    /\ ReturnedSpec.nodes[1].background = Some("#FFFFFF")
    /\ ReturnedSpec.nodes[1].borderRadius = Some(12)
    /\ ReturnedSpec.nodes[1].children[1].children[1].content
            = <<"E", "n", "t", "e", "r", " ", "y", "o", "u", "r", " ", "e", "m", "a", "i", "l">>
    /\ ReturnedSpec.nodes[1].children[1].children[1].color = Some("#6B7280")

\* a container with a direct text child whose content is empty or white
\* space only
HasBlankTextChild(node) ==
    \E i \in 1..Len(node.children) :
        node.children[i].type = "text" /\ IsBlankString(node.children[i].content)

\* C29: in the order empty-text repair, visual defaults, classification, a
\* container whose validated backend output has a direct text child with
\* empty or whitespace-only content is never flagged: the repaired child
\* reads as placeholder text, so the defaults pass treats the container as
\* input-like (it gets a border where none was set, and no default
\* borderRadius) and the classifier treats it as input-like.
C29_BlankTextContainerNeverFlagged ==
    (IsReturned /\ ~dryRun)
    => \A place \in PlacesWhere(HasBlankTextChild, Document.nodes, <<>>) :
        LET before == NodeAt(Document.nodes, place)[1]
            fixed == NodeAt(ensureNonEmptyTextContent(Document).nodes, place)[1]
            after == NodeAt(ReturnedSpec.nodes, place)[1]
        IN  /\ PathText(place) \notin WarnedPaths(warnings)
            /\ \A i \in 1..Len(before.children) :
                (before.children[i].type = "text" /\ IsBlankString(before.children[i].content))
                => /\ isPlaceholderText(fixed.children[i])
                   /\ after.children[i].content = fixed.children[i].content
            /\ isInputContainer(fixed)
            /\ after.border = IF IsSome(before.border) THEN before.border
                              ELSE Some(Border("#D1D5DB", 1))
            /\ after.borderRadius = before.borderRadius
            /\ isInputLikeContainer(after)
            /\ ~PushesWarning(after)

\* six blank texts, so that every placeholder is handed out and the first
\* one again, to the text of a container that is not warned about
C29_Witness ==
    /\ IsReturned
    /\ ~dryRun
    /\ Len(Document.nodes) = 6
    /\ Len(PreorderTexts(Document.nodes)) = 6
    /\ \A i \in 1..6 : IsBlankString(PreorderTexts(Document.nodes)[i])
    /\ Document.nodes[6].type = "container"
    /\ Document.nodes[6].border = None
    /\ ReturnedSpec.nodes[6].children[1].content
            = <<"E", "n", "t", "e", "r", " ", "y", "o", "u", "r", " ", "e", "m", "a", "i", "l">>
    /\ ReturnedSpec.nodes[5].content
            = <<"P", "l", "a", "c", "e", "h", "o", "l", "d", "e", "r">>
    /\ IsSome(ReturnedSpec.nodes[6].border)
    /\ warnings = <<>>

\* C30: applyVisualDefaults is idempotent: for every schema-valid spec s and
\* target layout L, applyVisualDefaults(applyVisualDefaults(s, L), L) is
\* structurally equal to applyVisualDefaults(s, L); a container that the
\* first pass made input-like by adding a border still gets no default
\* borderRadius on the second pass.  So it is for the spec a call returns.
C30_VisualDefaultsIdempotent ==
    /\ (HasDocument /\ designSpecSchema(Document))
       => \A targetLayout \in TargetLayouts :
            LET once == applyVisualDefaults(Document, targetLayout)
            IN  applyVisualDefaults(once, targetLayout) = once
    /\ (IsReturned /\ ~dryRun)
       => \A targetLayout \in TargetLayouts :
            targetLayoutOf(requestContext) = targetLayout
            => applyVisualDefaults(ReturnedSpec, targetLayout) = ReturnedSpec

\* the first pass gave the container of "Enter name" a border and no
\* radius; the second pass leaves it without a radius
C30_Witness ==
    /\ HasDocument
    /\ designSpecSchema(Document)
    /\ Len(Document.nodes) = 1
    /\ Document.nodes[1].type = "container"
    /\ Document.nodes[1].border = None
    /\ Document.nodes[1].borderRadius = None
    /\ Document.nodes[1].children
            = <<TextNode(<<"E", "n", "t", "e", "r", " ", "n", "a", "m", "e">>, None, None)>>
    /\ LET once == applyVisualDefaults(Document, "tablet")
           twice == applyVisualDefaults(once, "tablet")
       IN  /\ once.nodes[1].border = Some(Border("#D1D5DB", 1))
           /\ once.nodes[1].borderRadius = None
           /\ twice.nodes[1].borderRadius = None
           /\ once.frame.height = Some(900)
           /\ twice = once

====
